---- MODULE Spec2Model ----
(***************************************************************************)
(* Model of vessel_validator/validator.py: the IMO and MMSI validators of  *)
(* VesselIdentifierValidator and the ValidationResult they return.         *)
(*                                                                         *)
(* A Python string is a sequence of characters; a character is an atom     *)
(* written as a TLA+ string ("7", "I", " ", and "U+00B2" for a code point  *)
(* outside ASCII).  Labels the code compares as whole strings (type names, *)
(* country names, message templates) are TLA+ strings.                     *)
(***************************************************************************)
EXTENDS Integers, Sequences, FiniteSets, TLC

VARIABLES stage, input, opts, result, mid_countries, heap, held

vars == <<stage, input, opts, result, mid_countries, heap, held>>

(***************************************************************************)
(* Bounds of the model.                                                    *)
(***************************************************************************)
\* Longest run of whitespace the caller puts before or after an input.
MaxPad == 1

(***************************************************************************)
(* Characters and the str methods the validators use.                      *)
(***************************************************************************)
DigitSeq == <<"0", "1", "2", "3", "4", "5", "6", "7", "8", "9">>

AsciiDigits == {DigitSeq[i] : i \in 1..10}

\* SUPERSCRIPT TWO: str.isdigit() is True, int() raises ValueError.
SuperscriptTwo == "U+00B2"

\* ARABIC-INDIC DIGIT ZERO: str.isdigit() is True, int() gives 0.
ArabicZero == "U+0660"

Whitespace == {" ", "\t"}

\* int(c) for a single ASCII digit character.
DigitVal(c) == (CHOOSE i \in 1..10 : DigitSeq[i] = c) - 1

\* The characters int() accepts as decimal digits, and their values.
IsDecimalCh(c) == c \in AsciiDigits \cup {ArabicZero}

DecimalVal(c) == IF c = ArabicZero THEN 0 ELSE DigitVal(c)

\* The characters for which str.isdigit() is True.
IsDigitCh(c) == IsDecimalCh(c) \/ c = SuperscriptTwo

\* str.isdigit(): every character is a digit and there is at least one.
isdigit(s) == Len(s) > 0 /\ \A i \in 1..Len(s) : IsDigitCh(s[i])

\* True when the string is made of ASCII digits only.
IsAsciiNumeric(s) == \A i \in 1..Len(s) : s[i] \in AsciiDigits

RECURSIVE lstrip(_)
lstrip(s) == IF Len(s) > 0 /\ s[1] \in Whitespace THEN lstrip(Tail(s)) ELSE s

RECURSIVE rstrip(_)
rstrip(s) ==
  IF Len(s) > 0 /\ s[Len(s)] \in Whitespace
  THEN rstrip(SubSeq(s, 1, Len(s) - 1))
  ELSE s

\* str.strip()
strip(s) == rstrip(lstrip(s))

\* s[a:b] for 0 <= a <= b
Slice(s, a, b) == SubSeq(s, a + 1, IF b < Len(s) THEN b ELSE Len(s))

startswith(s, p) == Len(p) <= Len(s) /\ SubSeq(s, 1, Len(p)) = p

endswith(s, p) == Len(p) <= Len(s) /\ SubSeq(s, Len(s) - Len(p) + 1, Len(s)) = p

\* str(n) for an integer
RECURSIVE IntToStr(_)
IntToStr(n) ==
  IF n < 0 THEN <<"-">> \o IntToStr(0 - n)
  ELSE IF n < 10 THEN <<DigitSeq[n + 1]>>
  ELSE Append(IntToStr(n \div 10), DigitSeq[(n % 10) + 1])

\* str.upper() for the letters of the modelled alphabet
UpperCh(c) ==
  CASE c = "i" -> "I"
    [] c = "m" -> "M"
    [] c = "o" -> "O"
    [] c = "x" -> "X"
    [] OTHER -> c

upper(s) == [i \in 1..Len(s) |-> UpperCh(s[i])]

\* str.replace(ch, "") for a single character ch
RECURSIVE remove(_, _)
remove(s, ch) ==
  IF Len(s) = 0 THEN <<>>
  ELSE IF s[1] = ch THEN remove(Tail(s), ch)
  ELSE <<s[1]>> \o remove(Tail(s), ch)

\* int(s) for a string that passed isdigit(): the value, or ValueError.
RECURSIVE DecimalValue(_)
DecimalValue(s) ==
  IF Len(s) = 0 THEN 0
  ELSE 10 * DecimalValue(SubSeq(s, 1, Len(s) - 1)) + DecimalVal(s[Len(s)])

IntParses(s) == Len(s) > 0 /\ \A i \in 1..Len(s) : IsDecimalCh(s[i])

(***************************************************************************)
(* Values a caller passes as the identifier: a string, None or an int.     *)
(***************************************************************************)
StrArg(s) == [kind |-> "str", s |-> s, n |-> 0]

NoneArg == [kind |-> "none", s |-> <<>>, n |-> 0]

IntArg(n) == [kind |-> "int", s |-> <<>>, n |-> n]

\* bool(x)
Truthy(x) ==
  CASE x.kind = "str" -> x.s /= <<>>
    [] x.kind = "int" -> x.n /= 0
    [] OTHER -> FALSE

\* str(x)
str(x) ==
  CASE x.kind = "str" -> x.s
    [] x.kind = "int" -> IntToStr(x.n)
    [] OTHER -> <<"N", "o", "n", "e">>

\* Optional[str] holding a character string (a MID).
None == [some |-> FALSE, s |-> <<>>]

Some(s) == [some |-> TRUE, s |-> s]

\* Optional[str] holding a label (expected_country).
NoLabel == [some |-> FALSE, name |-> ""]

Label(name) == [some |-> TRUE, name |-> name]

(***************************************************************************)
(* MID_COUNTRIES: the class-level dict from MID to country name.           *)
(***************************************************************************)
MID_ENTRIES ==
  {
    <<<<"3","0","3">>, "United States of America">>,
    <<<<"3","0","4">>, "United States of America">>,
    <<<<"3","0","5">>, "United States of America">>,
    <<<<"3","0","6">>, "Netherlands Antilles">>,
    <<<<"3","0","7">>, "Netherlands Antilles">>,
    <<<<"3","0","8">>, "Bahamas">>,
    <<<<"3","0","9">>, "Bahamas">>,
    <<<<"3","1","0">>, "Bermuda">>,
    <<<<"3","1","1">>, "Bahamas">>,
    <<<<"3","1","2">>, "Belize">>,
    <<<<"3","1","4">>, "Barbados">>,
    <<<<"3","1","6">>, "Canada">>,
    <<<<"3","1","9">>, "Cayman Islands">>,
    <<<<"3","2","1">>, "Costa Rica">>,
    <<<<"3","2","3">>, "Cuba">>,
    <<<<"3","2","5">>, "Dominica">>,
    <<<<"3","2","7">>, "Dominican Republic">>,
    <<<<"3","2","9">>, "Guadeloupe">>,
    <<<<"3","3","0">>, "Grenada">>,
    <<<<"3","3","1">>, "Greenland">>,
    <<<<"3","3","2">>, "Guatemala">>,
    <<<<"3","3","4">>, "Honduras">>,
    <<<<"3","3","6">>, "Haiti">>,
    <<<<"3","3","8">>, "United States of America">>,
    <<<<"3","3","9">>, "Jamaica">>,
    <<<<"3","4","1">>, "Saint Kitts and Nevis">>,
    <<<<"3","4","3">>, "Saint Lucia">>,
    <<<<"3","4","5">>, "Mexico">>,
    <<<<"3","4","7">>, "Martinique">>,
    <<<<"3","4","8">>, "Montserrat">>,
    <<<<"3","5","0">>, "Nicaragua">>,
    <<<<"3","5","1">>, "Panama">>,
    <<<<"3","5","2">>, "Panama">>,
    <<<<"3","5","3">>, "Panama">>,
    <<<<"3","5","4">>, "Panama">>,
    <<<<"3","5","5">>, "Panama">>,
    <<<<"3","5","6">>, "Panama">>,
    <<<<"3","5","7">>, "Panama">>,
    <<<<"3","5","8">>, "Puerto Rico">>,
    <<<<"3","5","9">>, "El Salvador">>,
    <<<<"3","6","1">>, "Saint Pierre and Miquelon">>,
    <<<<"3","6","2">>, "Trinidad and Tobago">>,
    <<<<"3","6","4">>, "Turks and Caicos Islands">>,
    <<<<"3","6","6">>, "United States of America">>,
    <<<<"3","6","7">>, "United States of America">>,
    <<<<"3","6","8">>, "United States of America">>,
    <<<<"3","6","9">>, "United States of America">>,
    <<<<"3","7","0">>, "Panama">>,
    <<<<"3","7","1">>, "Panama">>,
    <<<<"3","7","2">>, "Panama">>,
    <<<<"3","7","3">>, "Panama">>,
    <<<<"3","7","4">>, "Panama">>,
    <<<<"3","7","5">>, "Saint Vincent and the Grenadines">>,
    <<<<"3","7","6">>, "Saint Vincent and the Grenadines">>,
    <<<<"3","7","7">>, "Saint Vincent and the Grenadines">>,
    <<<<"3","7","8">>, "British Virgin Islands">>,
    <<<<"2","0","1">>, "Albania">>,
    <<<<"2","0","2">>, "Andorra">>,
    <<<<"2","0","3">>, "Austria">>,
    <<<<"2","0","4">>, "Azores">>,
    <<<<"2","0","5">>, "Belgium">>,
    <<<<"2","0","6">>, "Belarus">>,
    <<<<"2","0","7">>, "Bulgaria">>,
    <<<<"2","0","8">>, "Vatican City State">>,
    <<<<"2","0","9">>, "Cyprus">>,
    <<<<"2","1","0">>, "Cyprus">>,
    <<<<"2","1","1">>, "Germany">>,
    <<<<"2","1","2">>, "Cyprus">>,
    <<<<"2","1","3">>, "Georgia">>,
    <<<<"2","1","4">>, "Moldova">>,
    <<<<"2","1","5">>, "Malta">>,
    <<<<"2","1","6">>, "Armenia">>,
    <<<<"2","1","8">>, "Germany">>,
    <<<<"2","1","9">>, "Denmark">>,
    <<<<"2","2","0">>, "Denmark">>,
    <<<<"2","2","4">>, "Spain">>,
    <<<<"2","2","5">>, "Spain">>,
    <<<<"2","2","6">>, "France">>,
    <<<<"2","2","7">>, "France">>,
    <<<<"2","2","8">>, "France">>,
    <<<<"2","2","9">>, "Malta">>,
    <<<<"2","3","0">>, "Finland">>,
    <<<<"2","3","1">>, "Faroe Islands">>,
    <<<<"2","3","2">>, "United Kingdom">>,
    <<<<"2","3","3">>, "United Kingdom">>,
    <<<<"2","3","4">>, "United Kingdom">>,
    <<<<"2","3","5">>, "United Kingdom">>,
    <<<<"2","3","6">>, "Gibraltar">>,
    <<<<"2","3","7">>, "Greece">>,
    <<<<"2","3","8">>, "Croatia">>,
    <<<<"2","3","9">>, "Greece">>,
    <<<<"2","4","0">>, "Greece">>,
    <<<<"2","4","1">>, "Greece">>,
    <<<<"2","4","2">>, "Morocco">>,
    <<<<"2","4","3">>, "Hungary">>,
    <<<<"2","4","4">>, "Netherlands">>,
    <<<<"2","4","5">>, "Netherlands">>,
    <<<<"2","4","6">>, "Netherlands">>,
    <<<<"2","4","7">>, "Italy">>,
    <<<<"2","4","8">>, "Malta">>,
    <<<<"2","4","9">>, "Malta">>,
    <<<<"2","5","0">>, "Ireland">>,
    <<<<"2","5","1">>, "Iceland">>,
    <<<<"2","5","2">>, "Liechtenstein">>,
    <<<<"2","5","3">>, "Luxembourg">>,
    <<<<"2","5","4">>, "Monaco">>,
    <<<<"2","5","5">>, "Madeira">>,
    <<<<"2","5","6">>, "Malta">>,
    <<<<"2","5","7">>, "Norway">>,
    <<<<"2","5","8">>, "Norway">>,
    <<<<"2","5","9">>, "Norway">>,
    <<<<"2","6","1">>, "Poland">>,
    <<<<"2","6","2">>, "Montenegro">>,
    <<<<"2","6","3">>, "Portugal">>,
    <<<<"2","6","4">>, "Romania">>,
    <<<<"2","6","5">>, "Sweden">>,
    <<<<"2","6","6">>, "Sweden">>,
    <<<<"2","6","7">>, "Slovak Republic">>,
    <<<<"2","6","8">>, "San Marino">>,
    <<<<"2","6","9">>, "Switzerland">>,
    <<<<"2","7","0">>, "Czech Republic">>,
    <<<<"2","7","1">>, "Turkey">>,
    <<<<"2","7","2">>, "Ukraine">>,
    <<<<"2","7","3">>, "Russian Federation">>,
    <<<<"2","7","4">>, "Macedonia">>,
    <<<<"2","7","5">>, "Latvia">>,
    <<<<"2","7","6">>, "Estonia">>,
    <<<<"2","7","7">>, "Lithuania">>,
    <<<<"2","7","8">>, "Slovenia">>,
    <<<<"2","7","9">>, "Serbia">>,
    <<<<"4","0","1">>, "Afghanistan">>,
    <<<<"4","0","3">>, "Saudi Arabia">>,
    <<<<"4","0","5">>, "Bangladesh">>,
    <<<<"4","0","8">>, "Bahrain">>,
    <<<<"4","1","0">>, "Bhutan">>,
    <<<<"4","1","2">>, "China">>,
    <<<<"4","1","3">>, "China">>,
    <<<<"4","1","4">>, "China">>,
    <<<<"4","1","6">>, "Taiwan">>,
    <<<<"4","1","7">>, "Sri Lanka">>,
    <<<<"4","1","9">>, "India">>,
    <<<<"4","2","2">>, "Iran">>,
    <<<<"4","2","3">>, "Azerbaijan">>,
    <<<<"4","2","5">>, "Iraq">>,
    <<<<"4","2","8">>, "Israel">>,
    <<<<"4","3","1">>, "Japan">>,
    <<<<"4","3","2">>, "Japan">>,
    <<<<"4","3","4">>, "Turkmenistan">>,
    <<<<"4","3","6">>, "Kazakhstan">>,
    <<<<"4","3","7">>, "Uzbekistan">>,
    <<<<"4","3","8">>, "Jordan">>,
    <<<<"4","4","0">>, "Korea">>,
    <<<<"4","4","1">>, "Korea">>,
    <<<<"4","4","3">>, "Palestine">>,
    <<<<"4","4","5">>, "Democratic People's Republic of Korea">>,
    <<<<"4","4","7">>, "Kuwait">>,
    <<<<"4","5","0">>, "Lebanon">>,
    <<<<"4","5","1">>, "Kyrgyz Republic">>,
    <<<<"4","5","3">>, "Macao">>,
    <<<<"4","5","5">>, "Maldives">>,
    <<<<"4","5","7">>, "Mongolia">>,
    <<<<"4","5","9">>, "Nepal">>,
    <<<<"4","6","1">>, "Oman">>,
    <<<<"4","6","3">>, "Pakistan">>,
    <<<<"4","6","6">>, "Qatar">>,
    <<<<"4","6","8">>, "Syrian Arab Republic">>,
    <<<<"4","7","0">>, "United Arab Emirates">>,
    <<<<"4","7","1">>, "United Arab Emirates">>,
    <<<<"4","7","2">>, "Tajikistan">>,
    <<<<"4","7","3">>, "Yemen">>,
    <<<<"4","7","5">>, "Yemen">>,
    <<<<"4","7","7">>, "Hong Kong">>,
    <<<<"4","7","8">>, "Bosnia and Herzegovina">>,
    <<<<"5","0","3">>, "Australia">>,
    <<<<"5","0","6">>, "Myanmar">>,
    <<<<"5","0","8">>, "Brunei Darussalam">>,
    <<<<"5","1","0">>, "Micronesia">>,
    <<<<"5","1","1">>, "Palau">>,
    <<<<"5","1","2">>, "New Zealand">>,
    <<<<"5","1","4">>, "Cambodia">>,
    <<<<"5","1","5">>, "Cambodia">>,
    <<<<"5","1","6">>, "Christmas Island">>,
    <<<<"5","1","8">>, "Cook Islands">>,
    <<<<"5","2","0">>, "Fiji">>,
    <<<<"5","2","3">>, "Cocos (Keeling) Islands">>,
    <<<<"5","2","5">>, "Indonesia">>,
    <<<<"5","2","9">>, "Kiribati">>,
    <<<<"5","3","1">>, "Lao People's Democratic Republic">>,
    <<<<"5","3","3">>, "Malaysia">>,
    <<<<"5","3","6">>, "Northern Mariana Islands">>,
    <<<<"5","3","8">>, "Marshall Islands">>,
    <<<<"5","4","0">>, "New Caledonia">>,
    <<<<"5","4","2">>, "Niue">>,
    <<<<"5","4","4">>, "Nauru">>,
    <<<<"5","4","6">>, "French Polynesia">>,
    <<<<"5","4","8">>, "Philippines">>,
    <<<<"5","5","3">>, "Papua New Guinea">>,
    <<<<"5","5","5">>, "Pitcairn Island">>,
    <<<<"5","5","7">>, "Solomon Islands">>,
    <<<<"5","5","9">>, "American Samoa">>,
    <<<<"5","6","1">>, "Samoa">>,
    <<<<"5","6","3">>, "Singapore">>,
    <<<<"5","6","4">>, "Singapore">>,
    <<<<"5","6","5">>, "Singapore">>,
    <<<<"5","6","6">>, "Singapore">>,
    <<<<"5","6","7">>, "Thailand">>,
    <<<<"5","7","0">>, "Tonga">>,
    <<<<"5","7","2">>, "Tuvalu">>,
    <<<<"5","7","4">>, "Viet Nam">>,
    <<<<"5","7","6">>, "Vanuatu">>,
    <<<<"5","7","7">>, "Vanuatu">>,
    <<<<"5","7","8">>, "Wallis and Futuna Islands">>,
    <<<<"6","0","1">>, "South Africa">>,
    <<<<"6","0","3">>, "Angola">>,
    <<<<"6","0","5">>, "Algeria">>,
    <<<<"6","0","7">>, "Saint Paul and Amsterdam Islands">>,
    <<<<"6","0","8">>, "Ascension Island">>,
    <<<<"6","0","9">>, "Burundi">>,
    <<<<"6","1","0">>, "Benin">>,
    <<<<"6","1","1">>, "Botswana">>,
    <<<<"6","1","2">>, "Central African Republic">>,
    <<<<"6","1","3">>, "Cameroon">>,
    <<<<"6","1","5">>, "Congo">>,
    <<<<"6","1","6">>, "Comoros">>,
    <<<<"6","1","7">>, "Cape Verde">>,
    <<<<"6","1","8">>, "Crozet Archipelago">>,
    <<<<"6","1","9">>, "Ivory Coast">>,
    <<<<"6","2","0">>, "Comoros">>,
    <<<<"6","2","1">>, "Djibouti">>,
    <<<<"6","2","2">>, "Egypt">>,
    <<<<"6","2","4">>, "Ethiopia">>,
    <<<<"6","2","5">>, "Eritrea">>,
    <<<<"6","2","6">>, "Gabonese Republic">>,
    <<<<"6","2","7">>, "Ghana">>,
    <<<<"6","2","9">>, "Gambia">>,
    <<<<"6","3","0">>, "Guinea-Bissau">>,
    <<<<"6","3","1">>, "Equatorial Guinea">>,
    <<<<"6","3","2">>, "Guinea">>,
    <<<<"6","3","3">>, "Burkina Faso">>,
    <<<<"6","3","4">>, "Kenya">>,
    <<<<"6","3","5">>, "Kerguelen Islands">>,
    <<<<"6","3","6">>, "Liberia">>,
    <<<<"6","3","7">>, "Liberia">>,
    <<<<"6","3","8">>, "South Sudan">>,
    <<<<"6","4","2">>, "Libya">>,
    <<<<"6","4","4">>, "Lesotho">>,
    <<<<"6","4","5">>, "Mauritius">>,
    <<<<"6","4","7">>, "Madagascar">>,
    <<<<"6","4","9">>, "Mali">>,
    <<<<"6","5","0">>, "Mozambique">>,
    <<<<"6","5","4">>, "Mauritania">>,
    <<<<"6","5","5">>, "Malawi">>,
    <<<<"6","5","6">>, "Niger">>,
    <<<<"6","5","7">>, "Nigeria">>,
    <<<<"6","5","9">>, "Namibia">>,
    <<<<"6","6","0">>, "Reunion">>,
    <<<<"6","6","1">>, "Rwanda">>,
    <<<<"6","6","2">>, "Sudan">>,
    <<<<"6","6","3">>, "Senegal">>,
    <<<<"6","6","4">>, "Seychelles">>,
    <<<<"6","6","5">>, "Saint Helena">>,
    <<<<"6","6","6">>, "Somalia">>,
    <<<<"6","6","7">>, "Sierra Leone">>,
    <<<<"6","6","8">>, "Sao Tome and Principe">>,
    <<<<"6","6","9">>, "Swaziland">>,
    <<<<"6","7","0">>, "Chad">>,
    <<<<"6","7","1">>, "Togolese Republic">>,
    <<<<"6","7","2">>, "Tunisia">>,
    <<<<"6","7","4">>, "Tanzania">>,
    <<<<"6","7","5">>, "Uganda">>,
    <<<<"6","7","6">>, "Democratic Republic of the Congo">>,
    <<<<"6","7","7">>, "Tanzania">>,
    <<<<"6","7","8">>, "Zambia">>,
    <<<<"6","7","9">>, "Zimbabwe">>,
    <<<<"7","1","0">>, "Brazil">>,
    <<<<"7","2","0">>, "Bolivia">>,
    <<<<"7","2","5">>, "Chile">>,
    <<<<"7","3","0">>, "Colombia">>,
    <<<<"7","3","5">>, "Ecuador">>,
    <<<<"7","4","0">>, "Falkland Islands">>,
    <<<<"7","4","5">>, "Guiana">>,
    <<<<"7","5","0">>, "Guyana">>,
    <<<<"7","5","5">>, "Paraguay">>,
    <<<<"7","6","0">>, "Peru">>,
    <<<<"7","6","5">>, "Suriname">>,
    <<<<"7","7","0">>, "Uruguay">>,
    <<<<"7","7","5">>, "Venezuela">>
  }

\* The dict literal: the value of the class attribute when the class is created.
MID_COUNTRIES ==
  [k \in {e[1] : e \in MID_ENTRIES} |-> (CHOOSE e \in MID_ENTRIES : e[1] = k)[2]]

\* dict.get(key, default)
DictGet(d, key, default) == IF key \in DOMAIN d THEN d[key] ELSE default

(***************************************************************************)
(* ValidationResult and the ways the validators update it.  `raised` is    *)
(* TRUE when the call ended in an exception instead of returning a result. *)
(***************************************************************************)
EmptyInfo == [k \in {} |-> TRUE]

ValidationResult(valid) ==
  [raised |-> FALSE, exc |-> "", valid |-> valid, normalized |-> <<>>,
   errors |-> <<>>, warnings |-> <<>>, info |-> EmptyInfo]

\* A call that raised: no ValidationResult reaches the caller.
Raise(exc) ==
  [raised |-> TRUE, exc |-> exc, valid |-> FALSE, normalized |-> <<>>,
   errors |-> <<>>, warnings |-> <<>>, info |-> EmptyInfo]

\* An f-string: its literal text, the character strings formatted into it
\* and the labels formatted into it.
Message(text, strs, names) == [text |-> text, strs |-> strs, names |-> names]

\* Reject with the assignment to result.valid left out.
Reject_keeps_valid(r, m) == [r EXCEPT !.errors = Append(@, m)]

\* result.valid = False; result.errors.append(m)
Reject(r, m) == [r EXCEPT !.valid = FALSE, !.errors = Append(@, m)]

\* Warn that also clears result.valid.
Warn_invalidates(r, m) == [r EXCEPT !.valid = FALSE, !.warnings = Append(@, m)]

\* result.warnings.append(m)
Warn(r, m) == [r EXCEPT !.warnings = Append(@, m)]

\* result.info[key] = value
SetInfo(r, key, value) == [r EXCEPT !.info = (key :> value) @@ @]

(***************************************************************************)
(* MMSI validation                                                         *)
(***************************************************************************)
\* Type detection with the single-0 test ahead of the 00 test.
_detect_mmsi_type_group_first(mmsi) ==
  IF startswith(mmsi, <<"0">>) THEN "group_station"
  ELSE IF startswith(mmsi, <<"0", "0">>) THEN "coast_station"
  ELSE IF startswith(mmsi, <<"1", "1", "1">>) THEN "sar_aircraft"
  ELSE IF startswith(mmsi, <<"9", "9">>) THEN "aton"
  ELSE IF startswith(mmsi, <<"9", "8">>) THEN "craft_associated_with_ship"
  ELSE IF startswith(mmsi, <<"9", "7", "0">>) THEN "ais_sart"
  ELSE IF startswith(mmsi, <<"8">>) THEN "handheld"
  ELSE IF mmsi[1] \in {"2", "3", "4", "5", "6", "7"} THEN "ship_station"
  ELSE "unknown"

_detect_mmsi_type(mmsi) ==
  IF startswith(mmsi, <<"0", "0">>) THEN "coast_station"
  ELSE IF startswith(mmsi, <<"1", "1", "1">>) THEN "sar_aircraft"
  ELSE IF startswith(mmsi, <<"9", "9">>) THEN "aton"
  ELSE IF startswith(mmsi, <<"9", "8">>) THEN "craft_associated_with_ship"
  ELSE IF startswith(mmsi, <<"9", "7", "0">>) THEN "ais_sart"
  ELSE IF startswith(mmsi, <<"8">>) THEN "handheld"
  ELSE IF startswith(mmsi, <<"0">>) THEN "group_station"
  ELSE IF mmsi[1] \in {"2", "3", "4", "5", "6", "7"} THEN "ship_station"
  ELSE "unknown"

\* MID extraction reading the SAR aircraft MID one character early.
_extract_mmsi_mid_sar_early(mmsi, mmsi_type) ==
  IF mmsi_type = "ship_station" THEN Some(Slice(mmsi, 0, 3))
  ELSE IF mmsi_type = "coast_station" THEN Some(Slice(mmsi, 2, 5))
  ELSE IF mmsi_type = "group_station" THEN Some(Slice(mmsi, 1, 4))
  ELSE IF mmsi_type = "handheld" THEN Some(Slice(mmsi, 1, 4))
  ELSE IF mmsi_type = "sar_aircraft" THEN Some(Slice(mmsi, 2, 5))
  ELSE IF mmsi_type = "aton" THEN Some(Slice(mmsi, 2, 5))
  ELSE IF mmsi_type = "craft_associated_with_ship" THEN Some(Slice(mmsi, 2, 5))
  ELSE None

_extract_mmsi_mid(mmsi, mmsi_type) ==
  IF mmsi_type = "ship_station" THEN Some(Slice(mmsi, 0, 3))
  ELSE IF mmsi_type = "coast_station" THEN Some(Slice(mmsi, 2, 5))
  ELSE IF mmsi_type = "group_station" THEN Some(Slice(mmsi, 1, 4))
  ELSE IF mmsi_type = "handheld" THEN Some(Slice(mmsi, 1, 4))
  ELSE IF mmsi_type = "sar_aircraft" THEN Some(Slice(mmsi, 3, 6))
  ELSE IF mmsi_type = "aton" THEN Some(Slice(mmsi, 2, 5))
  ELSE IF mmsi_type = "craft_associated_with_ship" THEN Some(Slice(mmsi, 2, 5))
  ELSE None

_get_mmsi_usage_contexts(mmsi_type) ==
  LET contexts ==
        ("ship_station" :> <<"vhf_communication", "ais_transmission", "dsc_calling">>)
        @@ ("coast_station" :> <<"shore_based_communication", "traffic_management">>)
        @@ ("group_station" :> <<"fleet_operations", "group_calling">>)
        @@ ("handheld" :> <<"personal_vhf", "portable_equipment">>)
        @@ ("sar_aircraft" :> <<"search_and_rescue", "emergency_response">>)
        @@ ("aton" :> <<"navigation_aids", "buoy_identification">>)
        @@ ("ais_sart" :> <<"emergency_beacon", "distress_signal">>)
        @@ ("craft_associated_with_ship" :> <<"tender_operations", "pilot_boats">>)
  IN  DictGet(contexts, mmsi_type, <<"general_maritime_use">>)

\* The pattern check with a shorter ascending list.
_check_mmsi_suspicious_patterns_short_list(mmsi, result0) ==
  LET r1 == IF Cardinality({mmsi[i] : i \in 1..Len(mmsi)}) = 1
            THEN Warn(result0,
                      Message("MMSI contains suspicious pattern (all same digits: {})",
                              <<<<mmsi[1]>>>>, <<>>))
            ELSE result0
      r2 == IF mmsi \in {<<"1", "2", "3", "4", "5", "6", "7", "8", "9">>,
                         <<"0", "1", "2", "3", "4", "5", "6", "7", "8">>}
            THEN Warn(r1, Message("MMSI contains suspicious sequential ascending pattern",
                                  <<>>, <<>>))
            ELSE r1
      r3 == IF mmsi \in {<<"9", "8", "7", "6", "5", "4", "3", "2", "1">>,
                         <<"8", "7", "6", "5", "4", "3", "2", "1", "0">>}
            THEN Warn(r2, Message("MMSI contains suspicious sequential descending pattern",
                                  <<>>, <<>>))
            ELSE r2
  IN  r3

_check_mmsi_suspicious_patterns(mmsi, result0) ==
  LET r1 == IF Cardinality({mmsi[i] : i \in 1..Len(mmsi)}) = 1
            THEN Warn(result0,
                      Message("MMSI contains suspicious pattern (all same digits: {})",
                              <<<<mmsi[1]>>>>, <<>>))
            ELSE result0
      r2 == IF mmsi \in {<<"1", "2", "3", "4", "5", "6", "7", "8", "9">>,
                         <<"0", "1", "2", "3", "4", "5", "6", "7", "8">>,
                         <<"2", "3", "4", "5", "6", "7", "8", "9", "0">>}
            THEN Warn(r1, Message("MMSI contains suspicious sequential ascending pattern",
                                  <<>>, <<>>))
            ELSE r1
      r3 == IF mmsi \in {<<"9", "8", "7", "6", "5", "4", "3", "2", "1">>,
                         <<"8", "7", "6", "5", "4", "3", "2", "1", "0">>}
            THEN Warn(r2, Message("MMSI contains suspicious sequential descending pattern",
                                  <<>>, <<>>))
            ELSE r2
  IN  r3

\* The type check turning a type other than the detected one into an error.
mmsi_check_expected_type_rejects(result0, mmsi_type, detected_type) ==
  IF mmsi_type /= "auto" /\ mmsi_type /= detected_type
  THEN Reject(result0, Message("Expected MMSI type '{}', but detected '{}'",
                               <<>>, <<mmsi_type, detected_type>>))
  ELSE result0

\* validate_mmsi, "Validate based on type": the caller's type against the
\* detected one.
mmsi_check_expected_type(result0, mmsi_type, detected_type) ==
  IF mmsi_type /= "auto" /\ mmsi_type /= detected_type
  THEN Warn(result0, Message("Expected MMSI type '{}', but detected '{}'",
                             <<>>, <<mmsi_type, detected_type>>))
  ELSE result0

\* The country check without the test for an unresolved country.
mmsi_check_country_warns_unknown(result0, mid, country, expected_country) ==
  IF /\ expected_country.some /\ expected_country.name /= ""
     /\ country /= expected_country.name
  THEN Warn(result0, Message("MID {} corresponds to {}, expected {}",
                             <<mid>>, <<country, expected_country.name>>))
  ELSE result0

\* validate_mmsi, "Check country mismatch"
mmsi_check_country(result0, mid, country, expected_country) ==
  IF /\ expected_country.some /\ expected_country.name /= ""
     /\ country /= expected_country.name
     /\ country /= "Unknown"
  THEN Warn(result0, Message("MID {} corresponds to {}, expected {}",
                             <<mid>>, <<country, expected_country.name>>))
  ELSE result0

\* The range test with both limits excluded.
mid_out_of_range_exclusive(mid_num) == mid_num <= 201 \/ mid_num >= 775

\* validate_mmsi, "Validate MID range (201-775)": True when out of range.
mid_out_of_range(mid_num) == mid_num < 201 \/ mid_num > 775

\* The MID check recording the usage contexts ahead of the range test.
mmsi_check_mid_contexts_first(result0, mid, detected_type, expected_country) ==
  IF mid.some /\ mid.s /= <<>>
  THEN LET r1 == SetInfo(SetInfo(result0, "mid", mid.s), "suitable_for",
                         _get_mmsi_usage_contexts(detected_type))
       IN  IF ~IntParses(mid.s) THEN Raise("ValueError")
           ELSE LET mid_num == DecimalValue(mid.s)
                IN  IF mid_out_of_range(mid_num)
                    THEN Reject(r1, Message("Invalid MID code: {}. Must be between 201-775",
                                            <<mid.s>>, <<>>))
                    ELSE LET country == DictGet(mid_countries, mid.s, "Unknown")
                             r2 == SetInfo(r1, "country", country)
                         IN  mmsi_check_country(r2, mid.s, country, expected_country)
  ELSE result0

\* validate_mmsi, "Extract and validate MID"
mmsi_check_mid(result0, mid, detected_type, expected_country) ==
  IF mid.some /\ mid.s /= <<>>
  THEN LET r1 == SetInfo(result0, "mid", mid.s)
       IN  IF ~IntParses(mid.s) THEN Raise("ValueError")
           ELSE LET mid_num == DecimalValue(mid.s)
                IN  IF mid_out_of_range(mid_num)
                    THEN Reject(r1, Message("Invalid MID code: {}. Must be between 201-775",
                                            <<mid.s>>, <<>>))
                    ELSE LET country == DictGet(mid_countries, mid.s, "Unknown")
                             r2 == SetInfo(r1, "country", country)
                             r3 == SetInfo(r2, "suitable_for",
                                           _get_mmsi_usage_contexts(detected_type))
                         IN  mmsi_check_country(r3, mid.s, country, expected_country)
  ELSE result0

\* The type rules giving the generic message to every unknown identifier.
mmsi_check_type_rules_generic_unknown(result0, mmsi_normalized, detected_type) ==
  LET first_digit == mmsi_normalized[1]
  IN  IF detected_type = "ship_station"
      THEN LET r1 == IF first_digit \in {"0", "1", "8", "9"}
                     THEN Reject(result0,
                                 Message("Ship station MMSI cannot start with 0, 1, 8, or 9",
                                         <<>>, <<>>))
                     ELSE result0
               r2 == IF first_digit \notin {"2", "3", "4", "5", "6", "7"}
                     THEN Reject(r1, Message("Ship station MMSI must start with digit 2-7",
                                             <<>>, <<>>))
                     ELSE r1
               r3 == IF ~endswith(mmsi_normalized, <<"0", "0", "0">>)
                     THEN Warn(r2,
                               Message("Ship MMSI does not end in 000. May not be valid for international voyages or Inmarsat",
                                       <<>>, <<>>))
                     ELSE r2
           IN  r3
      ELSE IF detected_type = "coast_station"
      THEN IF ~startswith(mmsi_normalized, <<"0", "0">>)
           THEN Reject(result0, Message("Coast station MMSI must start with 00", <<>>, <<>>))
           ELSE result0
      ELSE IF detected_type = "group_station"
      THEN IF \/ ~startswith(mmsi_normalized, <<"0">>)
              \/ startswith(mmsi_normalized, <<"0", "0">>)
           THEN Reject(result0,
                       Message("Group station MMSI must start with single 0", <<>>, <<>>))
           ELSE result0
      ELSE IF detected_type = "handheld"
      THEN IF ~startswith(mmsi_normalized, <<"8">>)
           THEN Reject(result0, Message("Handheld MMSI must start with 8", <<>>, <<>>))
           ELSE result0
      ELSE IF detected_type = "sar_aircraft"
      THEN IF ~startswith(mmsi_normalized, <<"1", "1", "1">>)
           THEN Reject(result0, Message("SAR aircraft MMSI must start with 111", <<>>, <<>>))
           ELSE result0
      ELSE IF detected_type = "aton"
      THEN IF ~startswith(mmsi_normalized, <<"9", "9">>)
           THEN Reject(result0, Message("AIS AtoN MMSI must start with 99", <<>>, <<>>))
           ELSE result0
      ELSE IF detected_type = "unknown"
      THEN IF FALSE
           THEN Reject(result0,
                       Message("Invalid MMSI format: MMSI starting with '1' must be SAR aircraft (111XXXXXX). Ship stations must start with 2-7, not {}",
                               <<<<first_digit>>>>, <<>>))
           ELSE Reject(result0,
                       Message("Unknown MMSI type. Valid formats: Ship (2-7XX), Coast (00XX), Group (0XX), Handheld (8XX), SAR (111XX), AtoN (99XX), SART (970XX), Craft (98XX)",
                               <<>>, <<>>))
      ELSE result0

\* validate_mmsi, "Type-specific validations"
mmsi_check_type_rules(result0, mmsi_normalized, detected_type) ==
  LET first_digit == mmsi_normalized[1]
  IN  IF detected_type = "ship_station"
      THEN LET r1 == IF first_digit \in {"0", "1", "8", "9"}
                     THEN Reject(result0,
                                 Message("Ship station MMSI cannot start with 0, 1, 8, or 9",
                                         <<>>, <<>>))
                     ELSE result0
               r2 == IF first_digit \notin {"2", "3", "4", "5", "6", "7"}
                     THEN Reject(r1, Message("Ship station MMSI must start with digit 2-7",
                                             <<>>, <<>>))
                     ELSE r1
               r3 == IF ~endswith(mmsi_normalized, <<"0", "0", "0">>)
                     THEN Warn(r2,
                               Message("Ship MMSI does not end in 000. May not be valid for international voyages or Inmarsat",
                                       <<>>, <<>>))
                     ELSE r2
           IN  r3
      ELSE IF detected_type = "coast_station"
      THEN IF ~startswith(mmsi_normalized, <<"0", "0">>)
           THEN Reject(result0, Message("Coast station MMSI must start with 00", <<>>, <<>>))
           ELSE result0
      ELSE IF detected_type = "group_station"
      THEN IF \/ ~startswith(mmsi_normalized, <<"0">>)
              \/ startswith(mmsi_normalized, <<"0", "0">>)
           THEN Reject(result0,
                       Message("Group station MMSI must start with single 0", <<>>, <<>>))
           ELSE result0
      ELSE IF detected_type = "handheld"
      THEN IF ~startswith(mmsi_normalized, <<"8">>)
           THEN Reject(result0, Message("Handheld MMSI must start with 8", <<>>, <<>>))
           ELSE result0
      ELSE IF detected_type = "sar_aircraft"
      THEN IF ~startswith(mmsi_normalized, <<"1", "1", "1">>)
           THEN Reject(result0, Message("SAR aircraft MMSI must start with 111", <<>>, <<>>))
           ELSE result0
      ELSE IF detected_type = "aton"
      THEN IF ~startswith(mmsi_normalized, <<"9", "9">>)
           THEN Reject(result0, Message("AIS AtoN MMSI must start with 99", <<>>, <<>>))
           ELSE result0
      ELSE IF detected_type = "unknown"
      THEN IF first_digit = "1"
           THEN Reject(result0,
                       Message("Invalid MMSI format: MMSI starting with '1' must be SAR aircraft (111XXXXXX). Ship stations must start with 2-7, not {}",
                               <<<<first_digit>>>>, <<>>))
           ELSE Reject(result0,
                       Message("Unknown MMSI type. Valid formats: Ship (2-7XX), Coast (00XX), Group (0XX), Handheld (8XX), SAR (111XX), AtoN (99XX), SART (970XX), Craft (98XX)",
                               <<>>, <<>>))
      ELSE result0

\* validate_mmsi with the digit test ahead of the length test.
validate_mmsi_numeric_first(mmsi, mmsi_type, expected_country, strict_format, check_database) ==
  LET mmsi_normalized == IF Truthy(mmsi) THEN strip(str(mmsi)) ELSE <<>>
      r0 == [ValidationResult(TRUE) EXCEPT !.normalized = mmsi_normalized]
  IN  IF mmsi_normalized = <<>>
      THEN Reject(r0, Message("MMSI cannot be empty", <<>>, <<>>))
      ELSE IF ~isdigit(mmsi_normalized)
      THEN Reject(r0, Message("MMSI must contain only numeric digits", <<>>, <<>>))
      ELSE IF Len(mmsi_normalized) /= 9
      THEN Reject(r0, Message("MMSI must be exactly 9 digits, got {}",
                              <<IntToStr(Len(mmsi_normalized))>>, <<>>))
      ELSE LET detected_type == _detect_mmsi_type(mmsi_normalized)
               r1 == SetInfo(r0, "type", detected_type)
               r2 == mmsi_check_expected_type(r1, mmsi_type, detected_type)
               mid == _extract_mmsi_mid(mmsi_normalized, detected_type)
               r3 == mmsi_check_mid(r2, mid, detected_type, expected_country)
           IN  IF r3.raised THEN r3
               ELSE _check_mmsi_suspicious_patterns(
                      mmsi_normalized,
                      mmsi_check_type_rules(r3, mmsi_normalized, detected_type))

validate_mmsi(mmsi, mmsi_type, expected_country, strict_format, check_database) ==
  LET mmsi_normalized == IF Truthy(mmsi) THEN strip(str(mmsi)) ELSE <<>>
      r0 == [ValidationResult(TRUE) EXCEPT !.normalized = mmsi_normalized]
  IN  IF mmsi_normalized = <<>>
      THEN Reject(r0, Message("MMSI cannot be empty", <<>>, <<>>))
      ELSE IF Len(mmsi_normalized) /= 9
      THEN Reject(r0, Message("MMSI must be exactly 9 digits, got {}",
                              <<IntToStr(Len(mmsi_normalized))>>, <<>>))
      ELSE IF ~isdigit(mmsi_normalized)
      THEN Reject(r0, Message("MMSI must contain only numeric digits", <<>>, <<>>))
      ELSE LET detected_type == _detect_mmsi_type(mmsi_normalized)
               r1 == SetInfo(r0, "type", detected_type)
               r2 == mmsi_check_expected_type(r1, mmsi_type, detected_type)
               mid == _extract_mmsi_mid(mmsi_normalized, detected_type)
               r3 == mmsi_check_mid(r2, mid, detected_type, expected_country)
           IN  IF r3.raised THEN r3
               ELSE _check_mmsi_suspicious_patterns(
                      mmsi_normalized,
                      mmsi_check_type_rules(r3, mmsi_normalized, detected_type))

(***************************************************************************)
(* IMO validation                                                          *)
(***************************************************************************)
\* sum(int(digit) * weight for digit, weight in zip(digits, weights))
RECURSIVE WeightedSum(_, _)
WeightedSum(digits, weights) ==
  IF Len(digits) = 0 \/ Len(weights) = 0 THEN 0
  ELSE DecimalVal(digits[1]) * weights[1] + WeightedSum(Tail(digits), Tail(weights))

\* The ship check digit with the weights in ascending order.
_calculate_imo_ship_check_digit_reversed(first_six_digits) ==
  IF Len(first_six_digits) /= 6 \/ ~isdigit(first_six_digits) THEN -1
  ELSE LET weights == <<2, 3, 4, 5, 6, 7>>
           total == WeightedSum(first_six_digits, weights)
       IN  total % 10

_calculate_imo_ship_check_digit(first_six_digits) ==
  IF Len(first_six_digits) /= 6 \/ ~isdigit(first_six_digits) THEN -1
  ELSE LET weights == <<7, 6, 5, 4, 3, 2>>
           total == WeightedSum(first_six_digits, weights)
       IN  total % 10

\* The company check digit without the final reduction modulo 10.
_calculate_imo_company_check_digit_no_mod10(first_six_digits) ==
  IF Len(first_six_digits) /= 6 \/ ~isdigit(first_six_digits) THEN -1
  ELSE LET weights == <<8, 6, 4, 2, 9, 7>>
           total == WeightedSum(first_six_digits, weights)
           mod_11 == total % 11
       IN  11 - mod_11

_calculate_imo_company_check_digit(first_six_digits) ==
  IF Len(first_six_digits) /= 6 \/ ~isdigit(first_six_digits) THEN -1
  ELSE LET weights == <<8, 6, 4, 2, 9, 7>>
           total == WeightedSum(first_six_digits, weights)
           mod_11 == total % 11
       IN  (11 - mod_11) % 10

\* The era table with the last bound inclusive.
_estimate_imo_era_inclusive(imo_num) ==
  IF imo_num < 5000000 THEN "Pre-1960s (historical)"
  ELSE IF imo_num < 6000000 THEN "1960s-1980s"
  ELSE IF imo_num < 7000000 THEN "1980s-1990s"
  ELSE IF imo_num < 8000000 THEN "1990s-2000s"
  ELSE IF imo_num < 9000000 THEN "2000s-2010s"
  ELSE IF imo_num <= 9500000 THEN "2010s-2020s"
  ELSE "2020s-present"

_estimate_imo_era(imo_num) ==
  IF imo_num < 5000000 THEN "Pre-1960s (historical)"
  ELSE IF imo_num < 6000000 THEN "1960s-1980s"
  ELSE IF imo_num < 7000000 THEN "1980s-1990s"
  ELSE IF imo_num < 8000000 THEN "1990s-2000s"
  ELSE IF imo_num < 9000000 THEN "2000s-2010s"
  ELSE IF imo_num < 9500000 THEN "2010s-2020s"
  ELSE "2020s-present"

\* validate_imo, "Validate check digit", once the check digit is calculated:
\* record it and compare it with the 7th digit.
imo_compare_check_digit(result0, calculated_check_digit, actual_check_digit, error_text, success_text) ==
  LET r1 == SetInfo(result0, "check_digit",
                    [calculated |-> calculated_check_digit,
                     actual |-> actual_check_digit,
                     valid |-> calculated_check_digit = actual_check_digit])
  IN  IF calculated_check_digit /= actual_check_digit
      THEN Reject(r1, Message(error_text,
                              <<IntToStr(calculated_check_digit),
                                IntToStr(actual_check_digit)>>, <<>>))
      ELSE SetInfo(r1, "validation_success",
                   Message(success_text, <<r1.normalized>>, <<>>))

\* validate_imo, "Validate check digit"
imo_check_digit(result0, number_type, imo_digits) ==
  IF number_type = "ship"
  THEN imo_compare_check_digit(
         result0,
         _calculate_imo_ship_check_digit(Slice(imo_digits, 0, 6)),
         DecimalVal(imo_digits[7]),
         "Invalid IMO number: check digit validation failed. Expected {}, got {}",
         "IMO number {} is valid (check digit verified)")
  ELSE IF number_type = "company"
  THEN imo_compare_check_digit(
         result0,
         _calculate_imo_company_check_digit(Slice(imo_digits, 0, 6)),
         DecimalVal(imo_digits[7]),
         "Invalid IMO company number: check digit validation failed. Expected {}, got {}",
         "IMO company number {} is valid (check digit verified)")
  ELSE result0

\* validate_imo, "Historical warnings"
imo_historical_warning(result0, imo_num) ==
  IF imo_num < 6000000
  THEN Warn(result0, Message("IMO {} appears to be from an older vessel (pre-1990s)",
                             <<IntToStr(imo_num)>>, <<>>))
  ELSE result0

\* The same steps, returning as soon as the check digit disagrees.
imo_classify_stops_on_mismatch(result0, number_type, imo_digits, imo_num) ==
  LET resolved_type == IF number_type = "auto" THEN "ship" ELSE number_type
      r1 == SetInfo(result0, "type",
                    IF number_type = "auto" THEN "ship (assumed)" ELSE number_type)
      r2 == imo_check_digit(r1, resolved_type, imo_digits)
      r3 == imo_historical_warning(r2, imo_num)
  IN  IF ~r2.valid THEN r2
      ELSE SetInfo(r3, "estimated_era", _estimate_imo_era(imo_num))

\* validate_imo from "Determine type if auto" to the return.
imo_classify(result0, number_type, imo_digits, imo_num) ==
  LET resolved_type == IF number_type = "auto" THEN "ship" ELSE number_type
      r1 == SetInfo(result0, "type",
                    IF number_type = "auto" THEN "ship (assumed)" ELSE number_type)
      r2 == imo_check_digit(r1, resolved_type, imo_digits)
      r3 == imo_historical_warning(r2, imo_num)
  IN  SetInfo(r3, "estimated_era", _estimate_imo_era(imo_num))

\* The checks of the payload with the digit test ahead of the length test.
imo_check_payload_numeric_first(result0, number_type, imo_digits) ==
  IF ~isdigit(imo_digits)
  THEN Reject(result0,
              Message("IMO number must contain only numeric digits after 'IMO' prefix",
                      <<>>, <<>>))
  ELSE IF Len(imo_digits) /= 7
  THEN Reject(result0,
              Message("IMO number must have exactly 7 digits after 'IMO' prefix, got {}",
                      <<IntToStr(Len(imo_digits))>>, <<>>))
  ELSE IF imo_digits[1] = "0"
  THEN Reject(result0, Message("IMO number should not start with leading zeros", <<>>, <<>>))
  ELSE IF ~IntParses(imo_digits) THEN Raise("ValueError")
  ELSE LET imo_num == DecimalValue(imo_digits)
       IN  IF imo_num < 1000000
           THEN Reject(result0, Message("IMO number {} is below valid range (suspicious)",
                                        <<IntToStr(imo_num)>>, <<>>))
           ELSE imo_classify(result0, number_type, imo_digits, imo_num)

\* validate_imo from "Check length" to the return: the checks of the payload.
imo_check_payload(result0, number_type, imo_digits) ==
  IF Len(imo_digits) /= 7
  THEN Reject(result0,
              Message("IMO number must have exactly 7 digits after 'IMO' prefix, got {}",
                      <<IntToStr(Len(imo_digits))>>, <<>>))
  ELSE IF ~isdigit(imo_digits)
  THEN Reject(result0,
              Message("IMO number must contain only numeric digits after 'IMO' prefix",
                      <<>>, <<>>))
  ELSE IF imo_digits[1] = "0"
  THEN Reject(result0, Message("IMO number should not start with leading zeros", <<>>, <<>>))
  ELSE IF ~IntParses(imo_digits) THEN Raise("ValueError")
  ELSE LET imo_num == DecimalValue(imo_digits)
       IN  IF imo_num < 1000000
           THEN Reject(result0, Message("IMO number {} is below valid range (suspicious)",
                                        <<IntToStr(imo_num)>>, <<>>))
           ELSE imo_classify(result0, number_type, imo_digits, imo_num)

\* has_prefix taken from the input before it is upper-cased and cleaned.
imo_has_prefix_raw(original_input, imo_normalized) ==
  startswith(original_input, <<"I", "M", "O">>)

\* validate_imo, "Check for IMO prefix": has_prefix
imo_has_prefix(original_input, imo_normalized) ==
  startswith(imo_normalized, <<"I", "M", "O">>)

\* The prefix required on strict_format alone.
imo_requires_prefix_strict_only(has_prefix, strict_format, allow_without_prefix) ==
  ~has_prefix /\ strict_format

\* validate_imo: the condition under which a missing prefix is an error.
imo_requires_prefix(has_prefix, strict_format, allow_without_prefix) ==
  ~has_prefix /\ strict_format /\ ~allow_without_prefix

validate_imo(imo, number_type, strict_format, allow_without_prefix, check_database) ==
  LET original_input == IF Truthy(imo) THEN strip(str(imo)) ELSE <<>>
      imo_normalized == remove(remove(upper(original_input), " "), "-")
      r0 == ValidationResult(TRUE)
      has_prefix == imo_has_prefix(original_input, imo_normalized)
      imo_digits == IF has_prefix
                    THEN Slice(imo_normalized, 3, Len(imo_normalized))
                    ELSE imo_normalized
      r1 == [r0 EXCEPT !.normalized = <<"I", "M", "O">> \o imo_digits]
  IN  IF imo_normalized = <<>>
      THEN Reject(r0, Message("IMO number cannot be empty", <<>>, <<>>))
      ELSE IF imo_requires_prefix(has_prefix, strict_format, allow_without_prefix)
      THEN Reject(r0, Message("IMO number must start with 'IMO' prefix", <<>>, <<>>))
      ELSE imo_check_payload(r1, number_type, imo_digits)

(***************************************************************************)
(* The identifiers and options callers pass.                               *)
(***************************************************************************)
\* Runs of at most n whitespace characters.
Pads(n) == UNION {[1..k -> Whitespace] : k \in 0..n}

\* The strings a caller makes of s by surrounding it with whitespace.
Padded(s) == {l \o s \o r : l \in Pads(MaxPad), r \in Pads(MaxPad)}

\* Three-character fields placed where the validator reads the MID.
MidSamples ==
  {<<"2", "0", "0">>, <<"2", "0", "1">>, <<"3", "6", "6">>, <<"3", "1", "3">>,
   <<"7", "7", "5">>, <<"7", "7", "6">>, <<"0", "1", "2">>}

\* Leading characters that select the MMSI type.
MmsiHeads ==
  {<<>>, <<"0", "0">>, <<"0">>, <<"8">>, <<"1", "1", "1">>, <<"9", "9">>,
   <<"9", "8">>, <<"9", "7", "0">>, <<"1">>, <<"9">>, <<"9", "7">>}

\* Trailing characters: the string is completed to nine characters from these.
MmsiFills ==
  {<<"0", "0", "0", "0", "0", "0", "0", "0", "0">>,
   <<"1", "2", "3", "4", "5", "6", "0", "0", "1">>}

MmsiCompose(head, mid, fill) ==
  LET hm == head \o mid IN hm \o SubSeq(fill, Len(hm) + 1, 9)

MmsiComposed ==
  {MmsiCompose(h, m, f) : h \in MmsiHeads, m \in MidSamples, f \in MmsiFills}

\* Identifiers of the tests and of the suspicious-pattern lists, and malformed ones.
MmsiSpecial ==
  {<<"3", "6", "6", "1", "2", "3", "0", "0", "0">>,
   <<"9", "9", "2", "3", "2", "0", "0", "0", "1">>,
   <<"0", "1", "2", "3", "4", "0", "0", "0", "1">>,
   <<"8", "1", "2", "3", "4", "5", "6", "7", "8">>,
   <<"0", "0", "2", "4", "7", "0", "0", "0", "2">>,
   <<"2", "2", "2", "2", "2", "2", "2", "2", "2">>,
   <<"0", "0", "0", "0", "0", "0", "0", "0", "0">>,
   <<"1", "1", "1", "1", "1", "1", "1", "1", "1">>,
   <<"8", "8", "8", "8", "8", "8", "8", "8", "8">>,
   <<"9", "9", "9", "9", "9", "9", "9", "9", "9">>,
   <<"1", "2", "3", "4", "5", "6", "7", "8", "9">>,
   <<"0", "1", "2", "3", "4", "5", "6", "7", "8">>,
   <<"2", "3", "4", "5", "6", "7", "8", "9", "0">>,
   <<"9", "8", "7", "6", "5", "4", "3", "2", "1">>,
   <<"8", "7", "6", "5", "4", "3", "2", "1", "0">>,
   <<"1", "2", "3", "4", "5", "6", "7", "8">>,
   <<"1", "2", "3", "4", "5", "6", "7", "8", "9", "0">>,
   <<"3", "6", "6", "1", "2", "3", "0", "0", "x">>,
   <<"3", "6", "6", "1", " ", "3", "0", "0", "0">>,
   <<"x">>,
   <<"2", ArabicZero, "1", "1", "2", "3", "0", "0", "0">>,
   <<"2", SuperscriptTwo, "1", "1", "2", "3", "0", "0", "0">>,
   <<SuperscriptTwo, "6", "6", "1", "2", "3", "0", "0", "0">>}

MmsiInputs ==
  {StrArg(s) : s \in MmsiComposed \cup MmsiSpecial}
  \cup {StrArg(p) : p \in Padded(<<"3", "6", "6", "1", "2", "3", "0", "0", "0">>)
                         \cup Padded(<<>>) \cup Padded(<<"x">>)}
  \cup {NoneArg, IntArg(0), IntArg(366123000)}

MmsiTypes == {"ship", "coast", "group", "handheld", "sar", "aton", "auto"}

ExpectedCountries ==
  {NoLabel, Label(""), Label("United States of America"), Label("Canada"),
   Label("Unknown")}

\* Seven-character payloads: the digits the check-digit weights multiply.
ImoComposed ==
  {<<d1, d2, d3, d4, d5, d6, d7>> :
     d1 \in {"1", "5", "9"}, d2 \in {"0", "7"}, d3 \in {"0", "7"},
     d4 \in {"0", "7"}, d5 \in {"0", "7"}, d6 \in {"0", "7"}, d7 \in AsciiDigits}

\* Payloads of the tests and of the docstrings, the era breakpoints, and
\* malformed payloads.
ImoSpecial ==
  {<<"9", "0", "7", "4", "7", "2", "9">>,
   <<"9", "0", "7", "4", "7", "2", "8">>,
   <<"9", "1", "7", "6", "1", "8", "7">>,
   <<"2", "0", "4", "1", "9", "9", "9">>,
   <<"1", "2", "3", "4", "5", "6", "7">>,
   <<"1", "0", "0", "0", "0", "0", "0">>,
   <<"4", "9", "9", "9", "9", "9", "9">>,
   <<"5", "0", "0", "0", "0", "0", "0">>,
   <<"5", "9", "9", "9", "9", "9", "9">>,
   <<"6", "0", "0", "0", "0", "0", "0">>,
   <<"6", "9", "9", "9", "9", "9", "9">>,
   <<"7", "0", "0", "0", "0", "0", "0">>,
   <<"7", "9", "9", "9", "9", "9", "9">>,
   <<"8", "0", "0", "0", "0", "0", "0">>,
   <<"8", "9", "9", "9", "9", "9", "9">>,
   <<"9", "0", "0", "0", "0", "0", "0">>,
   <<"9", "4", "9", "9", "9", "9", "9">>,
   <<"9", "5", "0", "0", "0", "0", "0">>,
   <<"9", "9", "9", "9", "9", "9", "9">>,
   <<"0", "9", "9", "9", "9", "9", "9">>,
   <<"0", "0", "0", "0", "0", "0", "0">>,
   <<"9", "9", "9", "9", "9", "9">>,
   <<"1", "2", "3", "4", "5", "6">>,
   <<"9", "0", "7", "4", "7", "2", "9", "1">>,
   <<"9", "0", "7", "4", "7", "2", "x">>,
   <<"1", "2", "3", "4", "5", "x">>,
   <<"9", "0", "7", "\t", "7", "2", "9">>,
   <<"9", "0", "7", "4", "7", "2", "9", "\t", "-">>,
   <<"-", "\t", "I", "M", "O", "9", "0", "7", "4", "7", "2", "9">>,
   <<ArabicZero, "0", "7", "4", "7", "2", "9">>,
   <<"9", ArabicZero, "7", "4", "7", "2", "9">>,
   <<"9", "0", "7", "4", "7", "2", SuperscriptTwo>>,
   <<>>}

\* The ways a caller writes a payload: bare, prefixed, lower case, with
\* spaces or hyphens.
ImoSpellings(p) ==
  {p,
   <<"I", "M", "O">> \o p,
   <<"I", "M", "O", " ">> \o p,
   <<"i", "m", "o", " ">> \o p,
   <<"I", "M", "O", "-">> \o p,
   <<"I", "m", "o">> \o p,
   Slice(p, 0, 3) \o <<"-">> \o Slice(p, 3, Len(p)),
   <<"I", "M">> \o p,
   <<"x">> \o p}

\* Payloads written in every spelling.
ImoSpelled ==
  {<<"9", "0", "7", "4", "7", "2", "9">>,
   <<"9", "0", "7", "4", "7", "2", "8">>,
   <<"1", "2", "3", "4", "5", "6">>,
   <<"0", "9", "9", "9", "9", "9", "9">>,
   <<>>}

ImoInputs ==
  {StrArg(s) : s \in ImoComposed \cup ImoSpecial}
  \cup {StrArg(s) : s \in UNION {ImoSpellings(p) : p \in ImoSpelled}}
  \cup {StrArg(p) : p \in Padded(<<"9", "0", "7", "4", "7", "2", "9">>)
                         \cup Padded(<<"I", "M", "O">>)}
  \cup {NoneArg, IntArg(0), IntArg(9074729), IntArg(999999)}

NumberTypes == {"ship", "company", "auto"}

\* The keyword arguments of a call, with the defaults of the signatures.
DefaultOpts ==
  [mmsi_type |-> "auto", expected_country |-> NoLabel, number_type |-> "ship",
   strict_format |-> FALSE, allow_without_prefix |-> TRUE,
   check_database |-> FALSE]

(***************************************************************************)
(* The callers: a caller takes an identifier, calls a validator on it with *)
(* some keyword arguments, may repeat the call on the same identifier with *)
(* one keyword argument changed, and drops the identifier.                 *)
(***************************************************************************)
MmsiOpts ==
  {[DefaultOpts EXCEPT !.mmsi_type = t, !.expected_country = c,
                       !.strict_format = sf, !.check_database = cd] :
     t \in MmsiTypes, c \in ExpectedCountries, sf \in BOOLEAN, cd \in BOOLEAN}

ImoOpts ==
  {[DefaultOpts EXCEPT !.number_type = t, !.strict_format = sf,
                       !.allow_without_prefix = ap, !.check_database = cd] :
     t \in NumberTypes, sf \in BOOLEAN, ap \in BOOLEAN, cd \in BOOLEAN}

\* The keyword arguments that differ from o in exactly one argument.
MmsiOptChanges(o) ==
  {[o EXCEPT !.mmsi_type = t] : t \in MmsiTypes \ {o.mmsi_type}}
  \cup {[o EXCEPT !.expected_country = c] : c \in ExpectedCountries \ {o.expected_country}}
  \cup {[o EXCEPT !.strict_format = ~@], [o EXCEPT !.check_database = ~@]}

ImoOptChanges(o) ==
  {[o EXCEPT !.number_type = t] : t \in NumberTypes \ {o.number_type}}
  \cup {[o EXCEPT !.strict_format = ~@], [o EXCEPT !.allow_without_prefix = ~@],
        [o EXCEPT !.check_database = ~@]}

\* The call with strict_format taking every identifier for a ship's.
CallMmsi_strict_ship(x, o) ==
  validate_mmsi(x, IF o.strict_format THEN "ship" ELSE o.mmsi_type, o.expected_country,
                o.strict_format, o.check_database)

\* vessel_validator.validate_mmsi(x, **o)
CallMmsi(x, o) ==
  validate_mmsi(x, o.mmsi_type, o.expected_country, o.strict_format, o.check_database)

\* vessel_validator.validate_imo(x, **o)
CallImo(x, o) ==
  validate_imo(x, o.number_type, o.strict_format, o.allow_without_prefix,
               o.check_database)

\* No object has been created yet.
NoObjects == [i \in {} |-> <<>>]

Init ==
  /\ stage = "idle"
  /\ input = NoneArg
  /\ opts = DefaultOpts
  /\ result = ValidationResult(TRUE)
  /\ mid_countries = MID_COUNTRIES
  /\ heap = NoObjects
  /\ held = <<>>

TakeMmsi ==
  /\ stage = "idle"
  /\ \E x \in MmsiInputs : input' = x
  /\ stage' = "mmsi"
  /\ UNCHANGED <<opts, result>>
  /\ UNCHANGED <<mid_countries, heap, held>>

TakeImo ==
  /\ stage = "idle"
  /\ \E x \in ImoInputs : input' = x
  /\ stage' = "imo"
  /\ UNCHANGED <<opts, result>>
  /\ UNCHANGED <<mid_countries, heap, held>>

ValidateMmsi ==
  /\ stage = "mmsi"
  /\ \E o \in MmsiOpts : opts' = o /\ result' = CallMmsi(input, o)
  /\ stage' = "mmsi_result"
  /\ UNCHANGED input
  /\ UNCHANGED <<mid_countries, heap, held>>

RevalidateMmsi ==
  /\ stage = "mmsi_result"
  /\ \E o \in MmsiOptChanges(opts) : opts' = o /\ result' = CallMmsi(input, o)
  /\ UNCHANGED <<stage, input>>
  /\ UNCHANGED <<mid_countries, heap, held>>

ValidateImo ==
  /\ stage = "imo"
  /\ \E o \in ImoOpts : opts' = o /\ result' = CallImo(input, o)
  /\ stage' = "imo_result"
  /\ UNCHANGED input
  /\ UNCHANGED <<mid_countries, heap, held>>

RevalidateImo ==
  /\ stage = "imo_result"
  /\ \E o \in ImoOptChanges(opts) : opts' = o /\ result' = CallImo(input, o)
  /\ UNCHANGED <<stage, input>>
  /\ UNCHANGED <<mid_countries, heap, held>>

\* The caller is done with the identifier and its result.
Drop ==
  /\ stage \in {"mmsi_result", "imo_result"}
  /\ stage' = "idle"
  /\ input' = NoneArg
  /\ opts' = DefaultOpts
  /\ result' = ValidationResult(TRUE)
  /\ UNCHANGED <<mid_countries, heap, held>>

Next ==
  \/ TakeMmsi
  \/ TakeImo
  \/ ValidateMmsi
  \/ RevalidateMmsi
  \/ ValidateImo
  \/ RevalidateImo
  \/ Drop

Spec == Init /\ [][Next]_vars

(***************************************************************************)
(* Batch validation.                                                       *)
(***************************************************************************)
\* A list of identifiers passed to a batch function.
ListArg(items) == [kind |-> "list", items |-> items]

\* f"{(num / den * 100):.1f}%": the percentage to the nearest tenth, a tie
\* going to the even tenth.
FormatPercent(num, den) ==
  LET q == (1000 * num) \div den
      r == (1000 * num) % den
      tenths == IF 2 * r > den \/ (2 * r = den /\ q % 2 = 1) THEN q + 1 ELSE q
  IN  IntToStr(tenths \div 10) \o <<".">> \o IntToStr(tenths % 10) \o <<"%">>

\* The dict a batch function returns.
BatchReturn(list, results, total_valid, total_invalid) ==
  [raised |-> FALSE, exc |-> "", results |-> results,
   summary |-> [total |-> Len(list), valid |-> total_valid, invalid |-> total_invalid,
                success_rate |-> IF list /= <<>>
                                 THEN FormatPercent(total_valid, Len(list))
                                 ELSE <<"0", "%">>]]

\* A batch call that raised: nothing reaches the caller.
BatchRaise(exc) ==
  [raised |-> TRUE, exc |-> exc, results |-> <<>>,
   summary |-> [total |-> 0, valid |-> 0, invalid |-> 0, success_rate |-> <<>>]]

\* validate_mmsi_batch: the loop from its i-th item on.
RECURSIVE mmsi_batch_loop(_, _, _, _, _, _)
mmsi_batch_loop(mmsi_list, o, i, results, total_valid, total_invalid) ==
  IF i > Len(mmsi_list)
  THEN BatchReturn(mmsi_list, results, total_valid, total_invalid)
  ELSE LET r == CallMmsi(mmsi_list[i], o)
       IN  IF r.raised THEN BatchRaise(r.exc)
           ELSE mmsi_batch_loop(mmsi_list, o, i + 1,
                                Append(results, [item |-> mmsi_list[i], result |-> r]),
                                IF r.valid THEN total_valid + 1 ELSE total_valid,
                                IF r.valid THEN total_invalid ELSE total_invalid + 1)

validate_mmsi_batch(mmsi_list, o) == mmsi_batch_loop(mmsi_list, o, 1, <<>>, 0, 0)

\* validate_imo_batch: the loop from its i-th item on.
RECURSIVE imo_batch_loop(_, _, _, _, _, _)
imo_batch_loop(imo_list, o, i, results, total_valid, total_invalid) ==
  IF i > Len(imo_list)
  THEN BatchReturn(imo_list, results, total_valid, total_invalid)
  ELSE LET r == CallImo(imo_list[i], o)
       IN  IF r.raised THEN BatchRaise(r.exc)
           ELSE imo_batch_loop(imo_list, o, i + 1,
                               Append(results, [item |-> imo_list[i], result |-> r]),
                               IF r.valid THEN total_valid + 1 ELSE total_valid,
                               IF r.valid THEN total_invalid ELSE total_invalid + 1)

validate_imo_batch(imo_list, o) == imo_batch_loop(imo_list, o, 1, <<>>, 0, 0)

(***************************************************************************)
(* The objects of the results.  A result returned to the caller is an      *)
(* object holding references to its errors list, its warnings list and its *)
(* info dict; info['suitable_for'] is a reference to a list.  heap maps an *)
(* object to its present contents, held lists the results the caller still *)
(* holds, oldest first.                                                    *)
(***************************************************************************)
\* Results the caller holds at a time.
MaxHeld == 2

\* Items of a batch list.
MaxBatch == 2

\* The identity of the k-th object created next: one no live object has.
FreshId(h, k) ==
  LET free == 1..(Cardinality(DOMAIN h) + k) \ DOMAIN h
  IN  CHOOSE i \in free : Cardinality({j \in free : j < i}) = k - 1

\* ValidationResult(valid=True): the default factories make a new errors
\* list, a new warnings list and a new info dict.
new_result_objects(h) ==
  [errors |-> FreshId(h, 1), warnings |-> FreshId(h, 2), info |-> FreshId(h, 3)]

Ref(id) == [ref |-> id]

\* The objects a call creates for the result r it returns, added to h, and
\* the references the caller gets.  The list of usage contexts is the object
\* contexts_object; it is created when no such object exists.
StoreResultAt(h, r, o, contexts_object) ==
  LET has == "suitable_for" \in DOMAIN r.info
      h1 == (o.errors :> r.errors) @@ (o.warnings :> r.warnings) @@ h
      h2 == IF has /\ contexts_object \notin DOMAIN h1
            THEN (contexts_object :> r.info["suitable_for"]) @@ h1
            ELSE h1
      info == [k \in DOMAIN r.info |->
                 IF k = "suitable_for" THEN Ref(contexts_object) ELSE r.info[k]]
  IN  [heap |-> (o.info :> info) @@ h2,
       ref |-> [valid |-> r.valid, normalized |-> r.normalized,
                errors |-> o.errors, warnings |-> o.warnings, info |-> o.info]]

\* The usage contexts as one list the validator keeps and hands out to every
\* result.
StoreResult_shared_contexts(h, r) ==
  StoreResultAt(h, r, new_result_objects(h), 0)

\* _get_mmsi_usage_contexts builds its dict of lists at every call: the list
\* it returns is a new object.
StoreResult(h, r) ==
  StoreResultAt(h, r, new_result_objects(h), FreshId(h, 4))

\* What the caller reads from a result it holds.
LoadResult(h, ref) ==
  [raised |-> FALSE, exc |-> "", valid |-> ref.valid, normalized |-> ref.normalized,
   errors |-> h[ref.errors], warnings |-> h[ref.warnings],
   info |-> [k \in DOMAIN h[ref.info] |->
               IF k = "suitable_for" THEN h[h[ref.info][k].ref] ELSE h[ref.info][k]]]

\* The objects of the results of a batch, created in the order of the list.
RECURSIVE StoreResults(_, _, _, _)
StoreResults(h, results, i, refs) ==
  IF i > Len(results) THEN [heap |-> h, refs |-> refs]
  ELSE LET st == StoreResult(h, results[i].result)
       IN  StoreResults(st.heap, results, i + 1, Append(refs, st.ref))

\* The results of a batch as the caller reads them.
LoadResults(h, results, refs) ==
  [i \in 1..Len(results) |->
     [item |-> results[i].item, result |-> LoadResult(h, refs[i])]]

\* The list of usage contexts of a held result, if it has one.
ContextsOf(h, ref) ==
  IF "suitable_for" \in DOMAIN h[ref.info]
  THEN {h[ref.info]["suitable_for"].ref} ELSE {}

\* The objects reachable from a held result.
ObjectsOf(h, ref) == {ref.errors, ref.warnings, ref.info} \cup ContextsOf(h, ref)

\* What a caller writes into a result it holds.
CallerNote == Message("caller note", <<>>, <<>>)

\* The caller has written to some object of the held results.
HasWritten ==
  \E j \in 1..Len(held) :
    \/ \E i \in 1..Len(heap[held[j].errors]) : heap[held[j].errors][i] = CallerNote
    \/ \E i \in 1..Len(heap[held[j].warnings]) : heap[held[j].warnings][i] = CallerNote
    \/ "caller_note" \in DOMAIN heap[held[j].info]
    \/ \E c \in ContextsOf(heap, held[j]) :
         \E i \in 1..Len(heap[c]) : heap[c][i] = "caller_note"

(***************************************************************************)
(* A session: calls of the validators and of the batch functions on the    *)
(* shared instance, by a caller that keeps results and writes to them.     *)
(***************************************************************************)
SessionMmsiItems ==
  {StrArg(<<"3", "6", "6", "1", "2", "3", "0", "0", "0">>),
   StrArg(<<"x">>),
   StrArg(<<"2", SuperscriptTwo, "1", "1", "2", "3", "0", "0", "0">>)}

SessionImoItems ==
  {StrArg(<<"9", "0", "7", "4", "7", "2", "9">>),
   StrArg(<<"9", "0", "7", "4", "7", "2", "8">>),
   StrArg(<<"9", "0", "7", "4", "7", "2", SuperscriptTwo>>)}

SessionMmsiOpts ==
  {DefaultOpts, [DefaultOpts EXCEPT !.expected_country = Label("Canada")]}

SessionImoOpts == {DefaultOpts}

\* The lists of at most MaxBatch items.
Lists(items) == UNION {[1..n -> items] : n \in 0..MaxBatch}

\* The caller's step after a call returned r: it keeps the result.
Keep(r, st) ==
  IF r.raised
  THEN result' = r /\ UNCHANGED <<heap, held>>
  ELSE /\ heap' = st.heap
       /\ held' = Append(held, st.ref)
       /\ result' = LoadResult(st.heap, st.ref)

\* The caller's step after a batch call returned b: it keeps every result.
KeepBatch(b, st) ==
  IF b.raised
  THEN result' = b /\ UNCHANGED <<heap, held>>
  ELSE /\ heap' = st.heap
       /\ held' = held \o st.refs
       /\ result' = [b EXCEPT !.results = LoadResults(st.heap, b.results, st.refs)]

SessionValidateMmsi ==
  /\ Len(held) < MaxHeld
  /\ \E x \in SessionMmsiItems, o \in SessionMmsiOpts :
       /\ input' = x
       /\ opts' = o
       /\ LET r == CallMmsi(x, o) IN Keep(r, StoreResult(heap, r))
  /\ stage' = "mmsi_result"
  /\ UNCHANGED mid_countries

SessionValidateImo ==
  /\ Len(held) < MaxHeld
  /\ \E x \in SessionImoItems, o \in SessionImoOpts :
       /\ input' = x
       /\ opts' = o
       /\ LET r == CallImo(x, o) IN Keep(r, StoreResult(heap, r))
  /\ stage' = "imo_result"
  /\ UNCHANGED mid_countries

SessionValidateMmsiBatch ==
  /\ \E l \in Lists(SessionMmsiItems), o \in SessionMmsiOpts :
       /\ Len(held) + Len(l) <= MaxHeld
       /\ input' = ListArg(l)
       /\ opts' = o
       /\ LET b == validate_mmsi_batch(l, o)
          IN  KeepBatch(b, StoreResults(heap, b.results, 1, <<>>))
  /\ stage' = "mmsi_batch_result"
  /\ UNCHANGED mid_countries

SessionValidateImoBatch ==
  /\ \E l \in Lists(SessionImoItems), o \in SessionImoOpts :
       /\ Len(held) + Len(l) <= MaxHeld
       /\ input' = ListArg(l)
       /\ opts' = o
       /\ LET b == validate_imo_batch(l, o)
          IN  KeepBatch(b, StoreResults(heap, b.results, 1, <<>>))
  /\ stage' = "imo_batch_result"
  /\ UNCHANGED mid_countries

\* The caller is between calls: it no longer looks at the last return value.
Between ==
  /\ input' = NoneArg
  /\ opts' = DefaultOpts
  /\ result' = ValidationResult(TRUE)
  /\ UNCHANGED mid_countries

\* result.errors.append(...) or result.warnings.append(...) on a held result.
CallerAppends ==
  /\ ~HasWritten
  /\ \E j \in 1..Len(held) :
       \E id \in {held[j].errors, held[j].warnings} :
         heap' = [heap EXCEPT ![id] = Append(@, CallerNote)]
  /\ stage' = "written"
  /\ Between
  /\ UNCHANGED held

\* result.info['caller_note'] = ... on a held result.
CallerSetsInfo ==
  /\ ~HasWritten
  /\ \E j \in 1..Len(held) :
       heap' = [heap EXCEPT ![held[j].info] = ("caller_note" :> "caller_note") @@ @]
  /\ stage' = "written"
  /\ Between
  /\ UNCHANGED held

\* result.info['suitable_for'].append(...) on a held result.
CallerAppendsContext ==
  /\ ~HasWritten
  /\ \E j \in 1..Len(held) :
       \E c \in ContextsOf(heap, held[j]) :
         heap' = [heap EXCEPT ![c] = Append(@, "caller_note")]
  /\ stage' = "written"
  /\ Between
  /\ UNCHANGED held

\* The caller lets go of the results it holds; their objects are gone.
Release ==
  /\ held /= <<>>
  /\ held' = <<>>
  /\ heap' = NoObjects
  /\ stage' = "released"
  /\ Between

SessionNext ==
  \/ SessionValidateMmsi
  \/ SessionValidateImo
  \/ SessionValidateMmsiBatch
  \/ SessionValidateImoBatch
  \/ CallerAppends
  \/ CallerSetsInfo
  \/ CallerAppendsContext
  \/ Release

SessionSpec == Init /\ [][SessionNext]_vars

(***************************************************************************)
(* What a state says about the last call, in the terms the properties use. *)
(***************************************************************************)
\* The last call was validate_mmsi / validate_imo and it returned a result.
MmsiReturned == stage = "mmsi_result" /\ ~result.raised

ImoReturned == stage = "imo_result" /\ ~result.raised

\* The identifier as given, trimmed (a missing identifier is the empty string).
Trimmed == IF Truthy(input) THEN strip(str(input)) ELSE <<>>

\* The trimmed identifier is nine ASCII decimal digits.
NineDigits == Len(Trimmed) = 9 /\ IsAsciiNumeric(Trimmed)

\* The IMO working string: trimmed, upper case, spaces and hyphens removed.
Working == remove(remove(upper(Trimmed), " "), "-")

WorkingHasPrefix == startswith(Working, <<"I", "M", "O">>)

\* The call got as far as taking a digit payload from the working string.
HasPayload ==
  /\ Working /= <<>>
  /\ WorkingHasPrefix \/ ~(opts.strict_format /\ ~opts.allow_without_prefix)

Payload == IF WorkingHasPrefix THEN Slice(Working, 3, Len(Working)) ELSE Working

\* The payload is seven ASCII decimal digits, the first not zero.
PayloadIsNumber ==
  /\ HasPayload
  /\ Len(Payload) = 7
  /\ IsAsciiNumeric(Payload)
  /\ Payload[1] /= "0"

\* The i-th digit of the payload.
D(i) == DigitVal(Payload[i])

HasInfo(key) == key \in DOMAIN result.info

\* Some entry of the list has the given message text.
HasText(list, text) == \E i \in 1..Len(list) : list[i].text = text

(***************************************************************************)
(* Properties                                                              *)
(***************************************************************************)

\* C1: for a payload of 7 decimal digits with a non-zero first digit,
\* validate_imo with number_type ship or auto records check_digit.calculated
\* = (7*d1 + 6*d2 + 5*d3 + 4*d4 + 3*d5 + 2*d6) mod 10 and check_digit.actual
\* = d7, and returns valid exactly when the two are equal.
C1_ShipCheckDigit ==
  (stage = "imo_result" /\ PayloadIsNumber /\ opts.number_type \in {"ship", "auto"})
    => /\ ~result.raised
       /\ HasInfo("check_digit")
       /\ result.info["check_digit"].calculated
            = (7 * D(1) + 6 * D(2) + 5 * D(3) + 4 * D(4) + 3 * D(5) + 2 * D(6)) % 10
       /\ result.info["check_digit"].actual = D(7)
       /\ result.valid
            = (result.info["check_digit"].calculated = result.info["check_digit"].actual)

\* 'IMO 9074728' validated as a ship: calculated 9, actual 8, invalid.
C1_Witness ==
  /\ ImoReturned
  /\ PayloadIsNumber
  /\ input = StrArg(<<"I", "M", "O", " ", "9", "0", "7", "4", "7", "2", "8">>)
  /\ opts.number_type = "auto"
  /\ result.info["check_digit"].calculated = 9
  /\ ~result.valid

\* C2: for a payload of 7 decimal digits with a non-zero first digit,
\* validate_imo with number_type company records check_digit.calculated
\* = (11 - ((8*d1 + 6*d2 + 4*d3 + 2*d4 + 9*d5 + 7*d6) mod 11)) mod 10, a value
\* in 0..9, records check_digit.valid = (calculated = actual), and returns
\* valid exactly when calculated equals the 7th digit.
C2_CompanyCheckDigit ==
  (stage = "imo_result" /\ PayloadIsNumber /\ opts.number_type = "company")
    => /\ ~result.raised
       /\ HasInfo("check_digit")
       /\ result.info["check_digit"].calculated
            = (11 - ((8 * D(1) + 6 * D(2) + 4 * D(3) + 2 * D(4) + 9 * D(5) + 7 * D(6)) % 11)) % 10
       /\ result.info["check_digit"].calculated \in 0..9
       /\ result.info["check_digit"].valid
            = (result.info["check_digit"].calculated = result.info["check_digit"].actual)
       /\ result.valid = (result.info["check_digit"].calculated = D(7))

\* Payload 2041999 validated as a company number: calculated 9, valid.
C2_Witness ==
  /\ ImoReturned
  /\ PayloadIsNumber
  /\ Payload = <<"2", "0", "4", "1", "9", "9", "9">>
  /\ opts.number_type = "company"
  /\ result.info["check_digit"].calculated = 9
  /\ result.valid

\* C3: every ValidationResult returned by validate_imo or validate_mmsi has
\* a non-empty errors list if and only if valid is false.
C3_ErrorsIffInvalid ==
  (MmsiReturned \/ ImoReturned) => ((result.errors /= <<>>) <=> ~result.valid)

\* An MMSI of unknown type: invalid, with one error.
C3_Witness ==
  /\ MmsiReturned
  /\ NineDigits
  /\ result.info["type"] = "unknown"
  /\ ~result.valid
  /\ Len(result.errors) = 1

\* The type rules in their order: the first rule with a matching prefix names
\* the type; no matching rule is 'unknown'.
TypeRules ==
  <<[prefixes |-> {<<"0", "0">>}, label |-> "coast_station"],
    [prefixes |-> {<<"1", "1", "1">>}, label |-> "sar_aircraft"],
    [prefixes |-> {<<"9", "9">>}, label |-> "aton"],
    [prefixes |-> {<<"9", "8">>}, label |-> "craft_associated_with_ship"],
    [prefixes |-> {<<"9", "7", "0">>}, label |-> "ais_sart"],
    [prefixes |-> {<<"8">>}, label |-> "handheld"],
    [prefixes |-> {<<"0">>}, label |-> "group_station"],
    [prefixes |-> {<<"2">>, <<"3">>, <<"4">>, <<"5">>, <<"6">>, <<"7">>},
     label |-> "ship_station"]>>

FirstMatchType(m) ==
  LET matching == {i \in 1..Len(TypeRules) :
                     \E p \in TypeRules[i].prefixes : startswith(m, p)}
  IN  IF matching = {} THEN "unknown"
      ELSE TypeRules[CHOOSE i \in matching : \A j \in matching : i <= j].label

\* The offset of the MID for each type that carries one.
MidOffset ==
  ("ship_station" :> 0) @@ ("coast_station" :> 2) @@ ("group_station" :> 1)
  @@ ("handheld" :> 1) @@ ("sar_aircraft" :> 3) @@ ("aton" :> 2)
  @@ ("craft_associated_with_ship" :> 2)

\* The type of the trimmed identifier carries a MID.
CarriesMid == FirstMatchType(Trimmed) \in DOMAIN MidOffset

\* The three characters at the offset of the identifier's type.
MidField ==
  LET o == MidOffset[FirstMatchType(Trimmed)]
  IN  <<Trimmed[o + 1], Trimmed[o + 2], Trimmed[o + 3]>>

\* The MID field as an integer.
MidNumber ==
  100 * DigitVal(MidField[1]) + 10 * DigitVal(MidField[2]) + DigitVal(MidField[3])

MidInRange == MidNumber >= 201 /\ MidNumber <= 775

InvalidMidText == "Invalid MID code: {}. Must be between 201-775"

TypeMismatchText == "Expected MMSI type '{}', but detected '{}'"

CountryMismatchText == "MID {} corresponds to {}, expected {}"

\* C4: for every 9-digit numeric identifier validate_mmsi records in info.type
\* the label of the first matching rule in the order 00, 111, 99, 98, 970, 8,
\* 0, first digit 2..7, and 'unknown' when none matches.
C4_TypeByFirstMatch ==
  (stage = "mmsi_result" /\ NineDigits)
    => /\ ~result.raised
       /\ HasInfo("type")
       /\ result.info["type"] = FirstMatchType(Trimmed)

\* '002010000' matches both 00 and 0 and is a coast station.
C4_Witness ==
  /\ MmsiReturned
  /\ Trimmed = <<"0", "0", "2", "0", "1", "0", "0", "0", "0">>
  /\ result.info["type"] = "coast_station"

\* C5: for every 9-digit numeric identifier the MID recorded by validate_mmsi
\* is the 3-character substring at the offset of the detected type; for
\* ais_sart and unknown there is no 'mid', 'country' or 'suitable_for' key.
C5_MidOffsetByType ==
  (stage = "mmsi_result" /\ NineDigits)
    => /\ ~result.raised
       /\ HasInfo("type")
       /\ LET t == result.info["type"]
          IN  IF t \in DOMAIN MidOffset
              THEN /\ HasInfo("mid")
                   /\ result.info["mid"]
                        = <<Trimmed[MidOffset[t] + 1], Trimmed[MidOffset[t] + 2],
                            Trimmed[MidOffset[t] + 3]>>
              ELSE /\ t \in {"ais_sart", "unknown"}
                   /\ ~HasInfo("mid")
                   /\ ~HasInfo("country")
                   /\ ~HasInfo("suitable_for")

\* '111366000': a SAR aircraft whose MID is read at [3:6).
C5_Witness ==
  /\ MmsiReturned
  /\ Trimmed = <<"1", "1", "1", "3", "6", "6", "0", "0", "0">>
  /\ result.info["type"] = "sar_aircraft"
  /\ result.info["mid"] = <<"3", "6", "6">>

\* C6: for every 9-digit numeric identifier of a type that carries a MID,
\* validate_mmsi appends the 'Invalid MID code' error, and with it sets valid
\* to false, exactly when the MID is below 201 or above 775.
C6_MidRange ==
  (stage = "mmsi_result" /\ NineDigits /\ CarriesMid)
    => /\ ~result.raised
       /\ HasText(result.errors, InvalidMidText) <=> ~MidInRange
       /\ ~MidInRange => ~result.valid

\* An AtoN with MID 775: the upper limit passes.
C6_Witness ==
  /\ MmsiReturned
  /\ NineDigits
  /\ FirstMatchType(Trimmed) = "aton"
  /\ MidNumber = 775
  /\ ~HasText(result.errors, InvalidMidText)
  /\ result.valid

\* C7 as stated: info.mid, info.country and info.suitable_for are recorded
\* together and only for a MID in 201..775; an out-of-range MID leaves none
\* of the three keys.
C7_KeysOnlyInRange ==
  (stage = "mmsi_result" /\ NineDigits /\ CarriesMid)
    => IF MidInRange
       THEN HasInfo("mid") /\ HasInfo("country") /\ HasInfo("suitable_for")
       ELSE ~HasInfo("mid") /\ ~HasInfo("country") /\ ~HasInfo("suitable_for")

\* C7 (amended): info.mid is recorded whenever a MID is extracted, in range or
\* not; info.country and info.suitable_for are recorded together and only for
\* a MID in 201..775.
C7_MidAlwaysOthersInRange ==
  (stage = "mmsi_result" /\ NineDigits)
    => /\ HasInfo("mid") <=> CarriesMid
       /\ HasInfo("country") <=> (CarriesMid /\ MidInRange)
       /\ HasInfo("suitable_for") <=> (CarriesMid /\ MidInRange)

\* A handheld with MID 776: 'mid' is recorded, the other two keys are not.
C7_Witness ==
  /\ MmsiReturned
  /\ NineDigits
  /\ FirstMatchType(Trimmed) = "handheld"
  /\ MidNumber = 776
  /\ HasInfo("mid")
  /\ ~HasInfo("country")
  /\ ~HasInfo("suitable_for")

\* The detected type each value of mmsi_type names.
NamedType ==
  ("ship" :> "ship_station") @@ ("coast" :> "coast_station")
  @@ ("group" :> "group_station") @@ ("handheld" :> "handheld")
  @@ ("sar" :> "sar_aircraft") @@ ("aton" :> "aton")

\* C8: the type-mismatch warning is appended only when mmsi_type is not 'auto'
\* and names a type other than the detected one.
C8_TypeWarningOnlyOnMismatch ==
  (MmsiReturned /\ HasText(result.warnings, TypeMismatchText))
    => /\ opts.mmsi_type /= "auto"
       /\ NamedType[opts.mmsi_type] /= result.info["type"]

\* The warnings that do not come from mmsi_type or expected_country.
OtherWarnings(r) ==
  LET Other(w) == w.text \notin {TypeMismatchText, CountryMismatchText}
  IN  SelectSeq(r.warnings, Other)

\* C9: two calls of validate_mmsi on the same identifier that differ in
\* mmsi_type or expected_country agree on valid and on errors; they differ at
\* most in the warnings those two options add.
C9_OptionsOnlyAddWarnings ==
  [][(/\ stage = "mmsi_result" /\ stage' = "mmsi_result"
      /\ input' = input
      /\ opts'.strict_format = opts.strict_format
      /\ opts'.check_database = opts.check_database)
       => /\ result'.raised = result.raised
          /\ result'.valid = result.valid
          /\ result'.errors = result.errors
          /\ OtherWarnings(result') = OtherWarnings(result)]_vars

\* A valid ship station called with a type and a country that both mismatch:
\* two warnings, still valid.
C9_Witness ==
  /\ MmsiReturned
  /\ NineDigits
  /\ opts.mmsi_type = "coast"
  /\ opts.expected_country = Label("Canada")
  /\ HasText(result.warnings, TypeMismatchText)
  /\ HasText(result.warnings, CountryMismatchText)
  /\ result.valid

\* The entry of the MID table for a MID, 'Unknown' when it has none.
TableCountry(mid) ==
  IF \E e \in MID_ENTRIES : e[1] = mid
  THEN (CHOOSE e \in MID_ENTRIES : e[1] = mid)[2]
  ELSE "Unknown"

\* C10 as stated: for an in-range MID info.country is the table entry or
\* 'Unknown', the result stays valid, and the country-mismatch warning is
\* appended exactly when expected_country is given, differs from the resolved
\* country, and the resolved country is not 'Unknown'.
C10_CountryWarningWhenGiven ==
  (stage = "mmsi_result" /\ NineDigits /\ CarriesMid /\ MidInRange)
    => /\ HasInfo("country")
       /\ result.info["country"] = TableCountry(MidField)
       /\ result.valid
       /\ HasText(result.warnings, CountryMismatchText)
            <=> /\ opts.expected_country.some
                /\ result.info["country"] /= opts.expected_country.name
                /\ result.info["country"] /= "Unknown"

\* C10 (amended): as C10, with the warning appended exactly when
\* expected_country is given and is not the empty string, differs from the
\* resolved country, and the resolved country is not 'Unknown'.
C10_CountryWarningWhenNonEmpty ==
  (stage = "mmsi_result" /\ NineDigits /\ CarriesMid /\ MidInRange)
    => /\ HasInfo("country")
       /\ result.info["country"] = TableCountry(MidField)
       /\ result.valid
       /\ HasText(result.warnings, CountryMismatchText)
            <=> /\ opts.expected_country.some
                /\ opts.expected_country.name /= ""
                /\ result.info["country"] /= opts.expected_country.name
                /\ result.info["country"] /= "Unknown"

\* MID 313 has no table entry: country 'Unknown', no warning against Canada.
C10_Witness ==
  /\ MmsiReturned
  /\ NineDigits
  /\ CarriesMid
  /\ MidField = <<"3", "1", "3">>
  /\ opts.expected_country = Label("Canada")
  /\ result.info["country"] = "Unknown"
  /\ ~HasText(result.warnings, CountryMismatchText)
  /\ result.valid

\* The trimmed identifier, working string and digit payload of any identifier.
TrimmedOf(x) == IF Truthy(x) THEN strip(str(x)) ELSE <<>>

WorkingOf(x) == remove(remove(upper(TrimmedOf(x)), " "), "-")

PayloadOf(x) ==
  IF startswith(WorkingOf(x), <<"I", "M", "O">>)
  THEN Slice(WorkingOf(x), 3, Len(WorkingOf(x)))
  ELSE WorkingOf(x)

\* The working string and the digit payload of each identifier callers pass.
ImoWorkings == [y \in ImoInputs |-> WorkingOf(y)]

ImoPayloads == [y \in ImoInputs |-> PayloadOf(y)]

\* The identifiers with the digit payload p.
SamePayload(p) == {y \in ImoInputs : ImoPayloads[y] = p}

\* C11 as stated: with default options validate_imo returns the same result
\* for identifiers that differ only in surrounding whitespace, letter case,
\* spaces, hyphens and the leading 'IMO' prefix, that is for identifiers with
\* the same digit payload, and normalized is always 'IMO' followed by the
\* digit payload.
C11_SamePayloadSameResult ==
  (stage = "imo_result" /\ opts = DefaultOpts)
    => /\ \A y \in SamePayload(Payload) : CallImo(y, opts) = result
       /\ ~result.raised => result.normalized = <<"I", "M", "O">> \o Payload

\* C11 (amended): the same, for identifiers whose working string is not empty.
C11_SamePayloadSameResultNonEmpty ==
  (stage = "imo_result" /\ opts = DefaultOpts /\ Working /= <<>>)
    => /\ \A y \in SamePayload(Payload) : ImoWorkings[y] /= <<>> => CallImo(y, opts) = result
       /\ ~result.raised => result.normalized = <<"I", "M", "O">> \o Payload

\* 'imo 9074729' with default options: valid, normalized 'IMO9074729'.
C11_Witness ==
  /\ ImoReturned
  /\ opts = DefaultOpts
  /\ input = StrArg(<<"i", "m", "o", " ", "9", "0", "7", "4", "7", "2", "9">>)
  /\ result.normalized = <<"I", "M", "O", "9", "0", "7", "4", "7", "2", "9">>
  /\ result.valid

\* C12: IMO normalization is idempotent: validating the normalized value of
\* a result again gives the same normalized value.
C12_NormalizedIdempotent ==
  ImoReturned
    => LET again == CallImo(StrArg(result.normalized), opts)
       IN  ~again.raised /\ again.normalized = result.normalized

PrefixErrorText == "IMO number must start with 'IMO' prefix"

\* The keyword arguments o with the two prefix flags at their defaults.
LenientOpts(o) == [o EXCEPT !.strict_format = FALSE, !.allow_without_prefix = TRUE]

\* C13 as stated: validate_imo rejects an input for a missing prefix exactly
\* when the working string does not start with 'IMO', strict_format is true
\* and allow_without_prefix is false; in every other option combination an
\* un-prefixed input is taken whole as the digit payload and validated as it
\* is with the default flags.
C13_PrefixRejectedIff ==
  stage = "imo_result"
    => /\ (~result.raised /\ HasText(result.errors, PrefixErrorText))
            <=> (~WorkingHasPrefix /\ opts.strict_format /\ ~opts.allow_without_prefix)
       /\ (~WorkingHasPrefix /\ ~(opts.strict_format /\ ~opts.allow_without_prefix))
            => /\ result = CallImo(input, LenientOpts(opts))
               /\ ~result.raised => result.normalized = <<"I", "M", "O">> \o Working

\* C13 (amended): the same, for a working string that is not empty; an empty
\* working string is rejected as empty whatever the flags.
C13_PrefixRejectedIffNonEmpty ==
  (stage = "imo_result" /\ Working /= <<>>)
    => /\ (~result.raised /\ HasText(result.errors, PrefixErrorText))
            <=> (~WorkingHasPrefix /\ opts.strict_format /\ ~opts.allow_without_prefix)
       /\ (~WorkingHasPrefix /\ ~(opts.strict_format /\ ~opts.allow_without_prefix))
            => /\ result = CallImo(input, LenientOpts(opts))
               /\ ~result.raised => result.normalized = <<"I", "M", "O">> \o Working

\* '9074729' with strict_format and without allow_without_prefix: rejected
\* for the missing prefix.
C13_Witness ==
  /\ ImoReturned
  /\ input = StrArg(<<"9", "0", "7", "4", "7", "2", "9">>)
  /\ opts.strict_format
  /\ ~opts.allow_without_prefix
  /\ HasText(result.errors, PrefixErrorText)
  /\ ~result.valid

\* C14: when strict_format is True every input without the 'IMO' prefix is
\* returned invalid with the "must start with 'IMO' prefix" error.
C14_StrictRequiresPrefix ==
  (stage = "imo_result" /\ opts.strict_format /\ Working /= <<>> /\ ~WorkingHasPrefix)
    => /\ ~result.raised
       /\ ~result.valid
       /\ HasText(result.errors, PrefixErrorText)

ImoEmptyText == "IMO number cannot be empty"

ImoLengthText == "IMO number must have exactly 7 digits after 'IMO' prefix, got {}"

ImoNumericText == "IMO number must contain only numeric digits after 'IMO' prefix"

ImoLeadingZeroText == "IMO number should not start with leading zeros"

\* The error of the first format check the identifier fails, in the order
\* empty, missing required prefix, length, digit test, leading zero; "" when
\* it passes all five.
ImoFirstFailure ==
  IF Working = <<>> THEN ImoEmptyText
  ELSE IF ~WorkingHasPrefix /\ opts.strict_format /\ ~opts.allow_without_prefix
  THEN PrefixErrorText
  ELSE IF Len(Payload) /= 7 THEN ImoLengthText
  ELSE IF ~isdigit(Payload) THEN ImoNumericText
  ELSE IF Payload[1] = "0" THEN ImoLeadingZeroText
  ELSE ""

\* C15: an input that fails a format check of validate_imo is returned
\* invalid with exactly one error, that of the first failing check in the
\* order empty, missing required prefix, length, digit test, leading zero,
\* and with empty warnings and empty info; the length error carries the
\* actual length.
C15_ImoFirstFailureOnly ==
  (stage = "imo_result" /\ ImoFirstFailure /= "")
    => /\ ~result.raised
       /\ ~result.valid
       /\ Len(result.errors) = 1
       /\ result.errors[1].text = ImoFirstFailure
       /\ ImoFirstFailure = ImoLengthText
            => result.errors[1].strs = <<IntToStr(Len(Payload))>>
       /\ result.warnings = <<>>
       /\ result.info = EmptyInfo

\* '12345x': too short and not numeric, reported as the length error.
C15_Witness ==
  /\ ImoReturned
  /\ Payload = <<"1", "2", "3", "4", "5", "X">>
  /\ ~isdigit(Payload)
  /\ Len(result.errors) = 1
  /\ result.errors[1].text = ImoLengthText
  /\ result.errors[1].strs = <<<<"6">>>>

\* The number the payload spells.
ImoNumber ==
  1000000 * D(1) + 100000 * D(2) + 10000 * D(3) + 1000 * D(4)
    + 100 * D(5) + 10 * D(6) + D(7)

OlderVesselText == "IMO {} appears to be from an older vessel (pre-1990s)"

\* The recorded check digit agrees with the seventh digit.
CheckDigitMatches ==
  result.info["check_digit"].calculated = result.info["check_digit"].actual

\* C16: for a payload of 7 decimal digits with a non-zero first digit and
\* number_type ship or company, the result records info.type, info.check_digit
\* and info.estimated_era and carries the older-vessel warning exactly when the
\* number is below 6,000,000, whether or not the check digit matches; a
\* mismatch adds exactly one error and makes the result invalid, a match adds
\* none.
C16_MismatchDoesNotShortCircuit ==
  (stage = "imo_result" /\ PayloadIsNumber /\ opts.number_type \in {"ship", "company"})
    => /\ ~result.raised
       /\ HasInfo("type") /\ result.info["type"] = opts.number_type
       /\ HasInfo("check_digit")
       /\ HasInfo("estimated_era")
       /\ HasText(result.warnings, OlderVesselText) <=> ImoNumber < 6000000
       /\ result.warnings
            = IF ImoNumber < 6000000
              THEN <<Message(OlderVesselText, <<IntToStr(ImoNumber)>>, <<>>)>>
              ELSE <<>>
       /\ result.info["check_digit"].valid = CheckDigitMatches
       /\ IF CheckDigitMatches
          THEN result.valid /\ result.errors = <<>>
          ELSE ~result.valid /\ Len(result.errors) = 1

\* '4999990' as a ship number: the check digit is 1, not 0, and the result
\* still carries the era and the older-vessel warning.
C16_Witness ==
  /\ ImoReturned
  /\ PayloadIsNumber
  /\ opts.number_type \in {"ship", "company"}
  /\ ImoNumber < 6000000
  /\ ~CheckDigitMatches
  /\ Len(result.errors) = 1
  /\ HasInfo("estimated_era")
  /\ HasText(result.warnings, OlderVesselText)

\* The era labels with their exclusive upper bounds, in ascending order.
EraBounds ==
  << <<5000000, "Pre-1960s (historical)">>,
     <<6000000, "1960s-1980s">>,
     <<7000000, "1980s-1990s">>,
     <<8000000, "1990s-2000s">>,
     <<9000000, "2000s-2010s">>,
     <<9500000, "2010s-2020s">> >>

\* The label of the first bound above n, the last label when there is none.
EraLabel(n) ==
  LET above == {i \in 1..Len(EraBounds) : n < EraBounds[i][1]}
  IN  IF above = {} THEN "2020s-present"
      ELSE EraBounds[CHOOSE i \in above : \A j \in above : i <= j][2]

\* C17: for an IMO number n in 1,000,000..9,999,999 that reaches era
\* estimation, info.estimated_era is the label chosen by exclusive upper
\* bounds: below 5,000,000, 6,000,000, 7,000,000, 8,000,000, 9,000,000 and
\* 9,500,000 in turn, and '2020s-present' from 9,500,000 on.
C17_EraByExclusiveBounds ==
  (stage = "imo_result" /\ PayloadIsNumber)
    => /\ ~result.raised
       /\ ImoNumber \in 1000000..9999999
       /\ HasInfo("estimated_era")
       /\ result.info["estimated_era"] = EraLabel(ImoNumber)

\* 'IMO9500000' sits on the last bound and is labelled '2020s-present'.
C17_Witness ==
  /\ ImoReturned
  /\ PayloadIsNumber
  /\ ImoNumber = 9500000
  /\ result.info["estimated_era"] = "2020s-present"

MmsiEmptyText == "MMSI cannot be empty"

MmsiLengthText == "MMSI must be exactly 9 digits, got {}"

MmsiNumericText == "MMSI must contain only numeric digits"

\* The error of the first format check the identifier fails, in the order
\* empty, length, digit test; "" when it passes all three.
MmsiFirstFailure ==
  IF Trimmed = <<>> THEN MmsiEmptyText
  ELSE IF Len(Trimmed) /= 9 THEN MmsiLengthText
  ELSE IF ~isdigit(Trimmed) THEN MmsiNumericText
  ELSE ""

\* C18: an input that fails a format check of validate_mmsi is returned
\* invalid with exactly one error, that of the first failing check in the
\* order empty, length, digit test, with normalized equal to the trimmed
\* input and with empty info and empty warnings; the length error carries the
\* actual length.
C18_MmsiFirstFailureOnly ==
  (stage = "mmsi_result" /\ MmsiFirstFailure /= "")
    => /\ ~result.raised
       /\ ~result.valid
       /\ Len(result.errors) = 1
       /\ result.errors[1].text = MmsiFirstFailure
       /\ MmsiFirstFailure = MmsiLengthText
            => result.errors[1].strs = <<IntToStr(Len(Trimmed))>>
       /\ result.normalized = Trimmed
       /\ result.info = EmptyInfo
       /\ result.warnings = <<>>

\* A padded identifier that is neither nine characters long nor numeric is
\* reported for its length, and normalized is the identifier without the
\* padding.
C18_Witness ==
  /\ MmsiReturned
  /\ Trimmed /= <<>>
  /\ Len(Trimmed) /= 9
  /\ ~isdigit(Trimmed)
  /\ str(input) /= Trimmed
  /\ Len(result.errors) = 1
  /\ result.errors[1].text = MmsiLengthText
  /\ result.normalized = Trimmed

SarRequiredText == "Invalid MMSI format: MMSI starting with '1' must be SAR aircraft (111XXXXXX). Ship stations must start with 2-7, not {}"

UnknownTypeText == "Unknown MMSI type. Valid formats: Ship (2-7XX), Coast (00XX), Group (0XX), Handheld (8XX), SAR (111XX), AtoN (99XX), SART (970XX), Craft (98XX)"

\* First digit 1 without the 111 prefix, or first digit 9 without a 99, 98 or
\* 970 prefix.
UnknownPrefix ==
  \/ Trimmed[1] = "1" /\ ~startswith(Trimmed, <<"1", "1", "1">>)
  \/ /\ Trimmed[1] = "9"
     /\ ~startswith(Trimmed, <<"9", "9">>)
     /\ ~startswith(Trimmed, <<"9", "8">>)
     /\ ~startswith(Trimmed, <<"9", "7", "0">>)

\* C19: a 9-digit numeric identifier with first digit 1 and no 111 prefix, or
\* first digit 9 and no 99, 98 or 970 prefix, is classified 'unknown' and
\* returned invalid with exactly one error: the message naming SAR aircraft
\* (111XXXXXX) when the first digit is '1', the generic 'Unknown MMSI type'
\* message otherwise.
C19_UnknownTypeOneError ==
  (stage = "mmsi_result" /\ NineDigits /\ UnknownPrefix)
    => /\ ~result.raised
       /\ result.info["type"] = "unknown"
       /\ ~result.valid
       /\ Len(result.errors) = 1
       /\ result.errors[1].text
            = IF Trimmed[1] = "1" THEN SarRequiredText ELSE UnknownTypeText

\* '123456789' gets the SAR aircraft message.
C19_Witness ==
  /\ MmsiReturned
  /\ Trimmed = <<"1", "2", "3", "4", "5", "6", "7", "8", "9">>
  /\ result.info["type"] = "unknown"
  /\ Len(result.errors) = 1
  /\ result.errors[1].text = SarRequiredText

AllSameText == "MMSI contains suspicious pattern (all same digits: {})"

AscendingText == "MMSI contains suspicious sequential ascending pattern"

DescendingText == "MMSI contains suspicious sequential descending pattern"

SuspiciousTexts == {AllSameText, AscendingText, DescendingText}

\* How many entries of the list have the given message text.
CountText(list, text) == Cardinality({i \in 1..Len(list) : list[i].text = text})

\* C20: for every 9-digit numeric identifier, valid or not, validate_mmsi
\* appends the all-same-digits warning exactly when all nine digits are
\* identical, the ascending warning exactly when the identifier is
\* '123456789', '012345678' or '234567890', and the descending warning exactly
\* when it is '987654321' or '876543210'; each at most once, and after every
\* other warning of the result.
C20_SuspiciousPatternWarnings ==
  (stage = "mmsi_result" /\ NineDigits)
    => /\ ~result.raised
       /\ CountText(result.warnings, AllSameText)
            = IF \A i \in 1..9 : Trimmed[i] = Trimmed[1] THEN 1 ELSE 0
       /\ \A i \in 1..Len(result.warnings) :
            result.warnings[i].text = AllSameText
              => result.warnings[i].strs = <<<<Trimmed[1]>>>>
       /\ CountText(result.warnings, AscendingText)
            = IF Trimmed \in {<<"1", "2", "3", "4", "5", "6", "7", "8", "9">>,
                              <<"0", "1", "2", "3", "4", "5", "6", "7", "8">>,
                              <<"2", "3", "4", "5", "6", "7", "8", "9", "0">>}
              THEN 1 ELSE 0
       /\ CountText(result.warnings, DescendingText)
            = IF Trimmed \in {<<"9", "8", "7", "6", "5", "4", "3", "2", "1">>,
                              <<"8", "7", "6", "5", "4", "3", "2", "1", "0">>}
              THEN 1 ELSE 0
       /\ \A i, j \in 1..Len(result.warnings) :
            (i < j /\ result.warnings[i].text \in SuspiciousTexts)
              => result.warnings[j].text \in SuspiciousTexts

\* '222222222' with a type that is not the detected one: the all-same-digits
\* warning comes last, after the type and the trailing-zeros warnings.
C20_Witness ==
  /\ MmsiReturned
  /\ Trimmed = <<"2", "2", "2", "2", "2", "2", "2", "2", "2">>
  /\ Len(result.warnings) >= 3
  /\ result.warnings[Len(result.warnings)].text = AllSameText
  /\ result.warnings[1].text \notin SuspiciousTexts

\* The last call was a batch call.
BatchStage == stage \in {"mmsi_batch_result", "imo_batch_result"}

\* The single-item validator of the last batch call, applied to x.
CallSingle(x) == IF stage = "mmsi_batch_result" THEN CallMmsi(x, opts) ELSE CallImo(x, opts)

\* C21: a batch call returns one results entry per input, in input order,
\* whose result is what the single-item validator returns for that input
\* with the same options; summary.total is the number of inputs,
\* summary.valid the number of entries with valid = true, summary.invalid is
\* total - valid, and success_rate is '0%' for an empty list.
C21_BatchEntryPerInput ==
  BatchStage
    => /\ ~result.raised
       /\ Len(result.results) = Len(input.items)
       /\ \A i \in 1..Len(result.results) :
            /\ result.results[i].item = input.items[i]
            /\ result.results[i].result = CallSingle(input.items[i])
       /\ result.summary.total = Len(input.items)
       /\ result.summary.valid
            = Cardinality({i \in 1..Len(result.results) : result.results[i].result.valid})
       /\ result.summary.invalid = result.summary.total - result.summary.valid
       /\ input.items = <<>> => result.summary.success_rate = <<"0", "%">>

\* C22: validate_imo and validate_mmsi never raise: every call returns a
\* ValidationResult, and a rejected input has valid = false together with an
\* entry in errors.
C22_NeverRaises ==
  stage \in {"mmsi_result", "imo_result"}
    => /\ ~result.raised
       /\ ~result.valid <=> result.errors /= <<>>

\* The value the last call returns when it is the first call made with its
\* arguments.
AsFirstCall ==
  IF stage = "mmsi_result" THEN CallMmsi(input, opts)
  ELSE IF stage = "imo_result" THEN CallImo(input, opts)
  ELSE IF stage = "mmsi_batch_result" THEN validate_mmsi_batch(input.items, opts)
  ELSE validate_imo_batch(input.items, opts)

\* C23: after any sequence of validate_imo, validate_mmsi and batch calls on
\* the shared instance, with the caller writing to the errors, warnings, info
\* or suitable_for of results it got earlier, the MID country table is as it
\* was created, a call returns what it returns as a first call with the same
\* arguments, and no two results share an errors, warnings, info or
\* suitable_for object.
C23_CallsIndependent ==
  /\ mid_countries = MID_COUNTRIES
  /\ (stage \in {"mmsi_result", "imo_result"} \/ BatchStage) => result = AsFirstCall
  /\ \A i, j \in 1..Len(held) :
       i /= j => ObjectsOf(heap, held[i]) \cap ObjectsOf(heap, held[j]) = {}
  /\ \A i \in 1..Len(held) :
       Cardinality(ObjectsOf(heap, held[i]))
         = IF ContextsOf(heap, held[i]) = {} THEN 3 ELSE 4

\* validate_mmsi('366123000') called again after the caller appended to the
\* suitable_for list of the result of the first call: the new result has the
\* three usage contexts of a ship station, in a list of its own.
C23_Witness ==
  /\ MmsiReturned
  /\ Len(held) = 2
  /\ held[1].normalized = held[2].normalized
  /\ \E c \in ContextsOf(heap, held[1]) :
       heap[c] = <<"vhf_communication", "ais_transmission", "dsc_calling", "caller_note">>
  /\ HasInfo("suitable_for")
  /\ result.info["suitable_for"] = <<"vhf_communication", "ais_transmission", "dsc_calling">>
  /\ result = LoadResult(heap, held[2])

ImoBelowRangeText == "IMO number {} is below valid range (suspicious)"

\* C24: no input makes validate_imo report the 'below valid range' error.
C24_BelowRangeUnreachable ==
  stage = "imo_result" => ~HasText(result.errors, ImoBelowRangeText)

\* C25: a 9-digit numeric identifier is returned valid by validate_mmsi
\* exactly when its type is ais_sart, or its type carries a MID and the MID is
\* in 201..775, whatever the country table, the trailing digits, the
\* suspicious-pattern checks and the options say.
C25_ValidIffSartOrMidInRange ==
  (stage = "mmsi_result" /\ NineDigits)
    => /\ ~result.raised
       /\ result.valid
            <=> \/ FirstMatchType(Trimmed) = "ais_sart"
                \/ CarriesMid /\ MidInRange

\* An AIS-SART with 200 after its prefix, validated as a 'ship': valid, and
\* no MID is looked at.
C25_Witness ==
  /\ MmsiReturned
  /\ NineDigits
  /\ FirstMatchType(Trimmed) = "ais_sart"
  /\ Slice(Trimmed, 3, 6) = <<"2", "0", "0">>
  /\ opts.mmsi_type = "ship"
  /\ result.valid
  /\ ~HasInfo("mid")

\* The errors validate_mmsi reports: those of the format checks, the MID
\* range error and the two unknown-type errors.
MmsiReportedTexts ==
  {MmsiEmptyText, MmsiLengthText, MmsiNumericText, InvalidMidText,
   SarRequiredText, UnknownTypeText}

\* C26: every result of validate_mmsi holds at most one error, and it is a
\* format error, 'Invalid MID code' or an unknown-type error: the structural
\* errors of the ship, coast, group, handheld, SAR aircraft and AtoN rules are
\* never reported, and 'Invalid MID code' never comes with an unknown-type
\* error.
C26_AtMostOneError ==
  MmsiReturned
    => /\ Len(result.errors) <= 1
       /\ \A i \in 1..Len(result.errors) : result.errors[i].text \in MmsiReportedTexts
       /\ ~(/\ HasText(result.errors, InvalidMidText)
            /\ \/ HasText(result.errors, SarRequiredText)
               \/ HasText(result.errors, UnknownTypeText))

\* '002000000': a coast station with MID 200 has the MID error alone, none
\* from the coast station rule.
C26_Witness ==
  /\ MmsiReturned
  /\ Trimmed = <<"0", "0", "2", "0", "0", "0", "0", "0", "0">>
  /\ result.info["type"] = "coast_station"
  /\ Len(result.errors) = 1
  /\ result.errors[1].text = InvalidMidText

====
